---------------------------- MODULE Spec2Model ----------------------------
(***************************************************************************)
(* Model of the table-aware Markdown reformatter of file-converter-mcp    *)
(* (src/src/index.ts), of the conversion layer that invokes it, of the    *)
(* document_organizer tools that act on the file system and of the handler *)
(* that answers the tool calls.                                             *)
(*                                                                         *)
(* A JavaScript string is modelled as a sequence of one-character strings, *)
(* so that splitting, trimming, padding and the regular-expression         *)
(* replacements are computed character by character, the way the code     *)
(* computes them.                                                          *)
(***************************************************************************)
EXTENDS Integers, Sequences, FiniteSets, TLC

(***************************************************************************)
(* Character classes of the regular expressions used by the code.          *)
(***************************************************************************)
NL == "\n"

Lower == {"a", "b", "c", "d", "e", "f", "g", "h", "i", "j", "k", "l", "m",
          "n", "o", "p", "q", "r", "s", "t", "u", "v", "w", "x", "y", "z"}

Upper == {"A", "B", "C", "D", "E", "F", "G", "H", "I", "J", "K", "L", "M",
          "N", "O", "P", "Q", "R", "S", "T", "U", "V", "W", "X", "Y", "Z"}

Digit == {"0", "1", "2", "3", "4", "5", "6", "7", "8", "9"}

\* \s of the regular expressions, and the characters String.prototype.trim strips
IsSpace(c) == c \in {" ", "\n", "\t"}

\* [A-Za-z\s]
IsAlphaSpace(c) == c \in Lower \/ c \in Upper \/ IsSpace(c)

\* [^\s<>]
IsUrlChar(c) == ~IsSpace(c) /\ c # "<" /\ c # ">"

\* [^<>]
IsNotAngle(c) == c # "<" /\ c # ">"

(***************************************************************************)
(* String primitives.                                                       *)
(***************************************************************************)
Min(a, b) == IF a <= b THEN a ELSE b

Max(a, b) == IF a >= b THEN a ELSE b

\* s.substring(from - 1, to - 1): the characters at the 1-based positions from..to-1
Sub(s, from, to) == IF to <= from THEN <<>> ELSE SubSeq(s, from, Min(to - 1, Len(s)))

\* does the literal lit occur in s at position p
At(s, p, lit) ==
    /\ p >= 1
    /\ p + Len(lit) - 1 <= Len(s)
    /\ \A k \in 1..Len(lit) : s[p + k - 1] = lit[k]

\* The scans below are written with CHOOSE over an interval instead of a
\* recursion over the characters: the value is the unique least (or greatest)
\* position that ends the run.

\* the first position >= p of s that holds no white space (Len(s) + 1 if none)
SkipSpaces(s, p) ==
    CHOOSE q \in p..(Len(s) + 1) :
        /\ (q > Len(s) \/ ~IsSpace(s[q]))
        /\ \A r \in p..(q - 1) : IsSpace(s[r])

\* the last position <= p of s that holds no white space (0 if none)
SkipSpacesBack(s, p) ==
    CHOOSE q \in 0..p :
        /\ (q = 0 \/ ~IsSpace(s[q]))
        /\ \A r \in (q + 1)..p : IsSpace(s[r])

SkipAlphaSpace(s, p) ==
    CHOOSE q \in p..(Len(s) + 1) :
        /\ (q > Len(s) \/ ~IsAlphaSpace(s[q]))
        /\ \A r \in p..(q - 1) : IsAlphaSpace(s[r])

SkipUrlChars(s, p) ==
    CHOOSE q \in p..(Len(s) + 1) :
        /\ (q > Len(s) \/ ~IsUrlChar(s[q]))
        /\ \A r \in p..(q - 1) : IsUrlChar(s[r])

SkipNotAngle(s, p) ==
    CHOOSE q \in p..(Len(s) + 1) :
        /\ (q > Len(s) \/ ~IsNotAngle(s[q]))
        /\ \A r \in p..(q - 1) : IsNotAngle(s[r])

SkipChar(s, p, c) ==
    CHOOSE q \in p..(Len(s) + 1) :
        /\ (q > Len(s) \/ s[q] # c)
        /\ \A r \in p..(q - 1) : s[r] = c

\* the first position >= p of s that holds c (Len(s) + 1 if none)
IndexFrom(s, c, p) ==
    CHOOSE q \in p..(Len(s) + 1) :
        /\ (q > Len(s) \/ s[q] = c)
        /\ \A r \in p..(q - 1) : s[r] # c

\* String.prototype.trim
Trim(s) == Sub(s, SkipSpaces(s, 1), SkipSpacesBack(s, Len(s)) + 1)

\* String.prototype.repeat for a one-character string
Repeat(c, n) == [k \in 1..n |-> c]

\* String.prototype.padEnd with the default filler, for an integral target length
PadEnd(s, n) == IF Len(s) >= n THEN s ELSE s \o Repeat(" ", n - Len(s))

RECURSIVE SplitFrom(_, _, _)
\* String.prototype.split(sep) for a one-character separator: the pieces of s from p on
SplitFrom(s, sep, p) ==
    LET q == IndexFrom(s, sep, p)
    IN  IF q > Len(s) THEN << Sub(s, p, q) >>
        ELSE << Sub(s, p, q) >> \o SplitFrom(s, sep, q + 1)

Split(s, sep) == SplitFrom(s, sep, 1)

RECURSIVE Join(_, _)
\* Array.prototype.join
Join(parts, sep) ==
    IF Len(parts) = 0 THEN <<>>
    ELSE IF Len(parts) = 1 THEN parts[1]
    ELSE parts[1] \o sep \o Join(Tail(parts), sep)

\* the number of matches of /\|/g in a line
PipeCount(line) == Cardinality({p \in 1..Len(line) : line[p] = "|"})

(***************************************************************************)
(* The regular expressions of the line cleaners and of the global          *)
(* cleanups.  Match(re, s, p) is the position just after the match of      *)
(* pattern re that begins at position p of s, or 0 when the pattern does   *)
(* not match there; Subst(re, s, p, e) is the replacement text of the      *)
(* match s[p..e-1].  ReplaceAll is String.prototype.replace with a /g      *)
(* pattern: matches are taken left to right and never overlap.             *)
(***************************************************************************)
LitBr == <<"<", "b", "r">>

LitBrTag == <<"<", "b", "r", ">">>

LitUOpen == <<"<", "u", ">">>

LitUClose == <<"<", "/", "u", ">">>

LitEm == <<"e", "m", ">">>

LitStrong == <<"s", "t", "r", "o", "n", "g", ">">>

LitHttp == <<"h", "t", "t", "p">>

LitColonSlashes == <<":", "/", "/">>

\* /<br\s*\/?>/
MatchBr(s, p) ==
    IF ~At(s, p, LitBr) THEN 0
    ELSE LET q == SkipSpaces(s, p + 3)
             r == IF q <= Len(s) /\ s[q] = "/" THEN q + 1 ELSE q
         IN  IF r <= Len(s) /\ s[r] = ">" THEN r + 1 ELSE 0

\* the second group of the location patterns, \s*([A-Za-z\s]+), from position r:
\* <<start of the group, end of the match>>, or <<0, 0>> when it cannot match
LocTail(s, r) ==
    LET r1 == SkipSpaces(s, r)
    IN  IF r1 <= Len(s) /\ IsAlphaSpace(s[r1]) THEN <<r1, SkipAlphaSpace(s, r1)>>
        ELSE IF r1 > r THEN <<r1 - 1, r1>>   \* \s* gives its last character back
        ELSE <<0, 0>>

\* /([A-Za-z\s]+),\s*<br>\s*([A-Za-z\s]+)/ : <<end of group 1, start of group 2, end>>
LocBrParts(s, p) ==
    LET q  == SkipAlphaSpace(s, p)
        q1 == SkipSpaces(s, q + 1)
    IN  IF q > p /\ q <= Len(s) /\ s[q] = "," /\ At(s, q1, LitBrTag)
        THEN LET t == LocTail(s, q1 + 4)
             IN  IF t[2] = 0 THEN <<0, 0, 0>> ELSE <<q, t[1], t[2]>>
        ELSE <<0, 0, 0>>

\* /([A-Za-z\s]+),\s*([A-Za-z\s]+)/
LocParts(s, p) ==
    LET q == SkipAlphaSpace(s, p)
    IN  IF q > p /\ q <= Len(s) /\ s[q] = ","
        THEN LET t == LocTail(s, q + 1)
             IN  IF t[2] = 0 THEN <<0, 0, 0>> ELSE <<q, t[1], t[2]>>
        ELSE <<0, 0, 0>>

\* /<u>([^<>]*)<\/u>/
MatchU(s, p) ==
    IF ~At(s, p, LitUOpen) THEN 0
    ELSE LET q == SkipNotAngle(s, p + 3)
         IN  IF At(s, q, LitUClose) THEN q + 4 ELSE 0

\* /<\/?em>/ and /<\/?strong>/
MatchTag(s, p, name) ==
    IF p > Len(s) \/ s[p] # "<" THEN 0
    ELSE LET q == IF p + 1 <= Len(s) /\ s[p + 1] = "/" THEN p + 2 ELSE p + 1
         IN  IF At(s, q, name) THEN q + Len(name) ELSE 0

\* /\s+/
MatchWs(s, p) ==
    IF p <= Len(s) /\ IsSpace(s[p]) THEN SkipSpaces(s, p) ELSE 0

\* /\s*\|\s*/
MatchPipe(s, p) ==
    LET q == SkipSpaces(s, p)
    IN  IF q <= Len(s) /\ s[q] = "|" THEN SkipSpaces(s, q + 1) ELSE 0

\* the lookahead (?=\s+[A-Z][a-z]) at position p
FootnoteAhead(s, p) ==
    LET q == SkipSpaces(s, p)
    IN  /\ q > p
        /\ q + 1 <= Len(s)
        /\ s[q] \in Upper
        /\ s[q + 1] \in Lower

\* /(?<=\s)\d{1,2}(?=\s+[A-Z][a-z])/
MatchFootnote(s, p) ==
    IF p > 1 /\ p <= Len(s) /\ IsSpace(s[p - 1]) /\ s[p] \in Digit
    THEN IF p + 1 <= Len(s) /\ s[p + 1] \in Digit /\ FootnoteAhead(s, p + 2)
         THEN p + 2
         ELSE IF FootnoteAhead(s, p + 1) THEN p + 1 ELSE 0
    ELSE 0

\* the last position in from..to-1 of s that holds a newline, or 0
LastNewlineBefore(s, from, to) ==
    IF \A k \in from..(to - 1) : s[k] # NL THEN 0
    ELSE CHOOSE k \in from..(to - 1) :
             s[k] = NL /\ \A r \in (k + 1)..(to - 1) : s[r] # NL

\* the number of newlines of s in from..to-1
NewlinesIn(s, from, to) == Cardinality({k \in from..(to - 1) : s[k] = NL})

\* /\n\s*\n\s*\n+/ : the white-space run that begins with the newline at p
\* matches when it holds three newlines, up to and including its last newline
MatchBlank(s, p) ==
    IF p <= Len(s) /\ s[p] = NL
    THEN LET e == SkipSpaces(s, p)
         IN  IF NewlinesIn(s, p, e) >= 3 THEN LastNewlineBefore(s, p, e) + 1 ELSE 0
    ELSE 0

\* /^#+\s*$/gm : a run of # at a line start, then white space up to a line end
MatchHeader(s, p) ==
    IF p <= Len(s) /\ s[p] = "#" /\ (p = 1 \/ s[p - 1] = NL)
    THEN LET q == SkipChar(s, p, "#")
             r == SkipSpaces(s, q)
             n == LastNewlineBefore(s, q, r)
         IN  IF r > Len(s) THEN r
             ELSE IF n > 0 THEN n
             ELSE 0
    ELSE 0

\* /(https?:\/\/[^\s<>]+)<br>([^\s<>]+)/ : <<position of <br>, end>>
UrlParts(s, p) ==
    IF ~At(s, p, LitHttp) THEN <<0, 0>>
    ELSE LET a == IF p + 4 <= Len(s) /\ s[p + 4] = "s" THEN p + 5 ELSE p + 4
         IN  IF ~At(s, a, LitColonSlashes) THEN <<0, 0>>
             ELSE LET q == SkipUrlChars(s, a + 3)
                      e == SkipUrlChars(s, q + 4)
                  IN  IF q > a + 3 /\ At(s, q, LitBrTag) /\ e > q + 4
                      THEN <<q, e>>
                      ELSE <<0, 0>>

Match(re, s, p) ==
    CASE re = "locbr"    -> LocBrParts(s, p)[3]
      [] re = "br"       -> MatchBr(s, p)
      [] re = "u"        -> MatchU(s, p)
      [] re = "em"       -> MatchTag(s, p, LitEm)
      [] re = "strong"   -> MatchTag(s, p, LitStrong)
      [] re = "ws"       -> MatchWs(s, p)
      [] re = "pipe"     -> MatchPipe(s, p)
      [] re = "loc"      -> LocParts(s, p)[3]
      [] re = "footnote" -> MatchFootnote(s, p)
      [] re = "blank"    -> MatchBlank(s, p)
      [] re = "header"   -> MatchHeader(s, p)
      [] re = "url"      -> UrlParts(s, p)[2]

Subst(re, s, p, e) ==
    CASE re = "locbr"    -> LET m == LocBrParts(s, p)
                            IN  Sub(s, p, m[1]) \o <<",", " ">> \o Sub(s, m[2], e)
      [] re = "br"       -> <<" ">>
      [] re = "u"        -> Sub(s, p + 3, e - 4)
      [] re = "em"       -> <<>>
      [] re = "strong"   -> <<>>
      [] re = "ws"       -> <<" ">>
      [] re = "pipe"     -> <<" ", "|", " ">>
      [] re = "loc"      -> LET m == LocParts(s, p)
                            IN  Sub(s, p, m[1]) \o <<",", " ">> \o Sub(s, m[2], e)
      [] re = "footnote" -> <<>>
      [] re = "blank"    -> <<NL, NL>>
      [] re = "header"   -> <<>>
      [] re = "url"      -> LET m == UrlParts(s, p)
                            IN  Sub(s, p, m[1]) \o Sub(s, m[1] + 4, e)

\* the first position >= p of s where pattern re matches (Len(s) + 1 if none)
NextMatch(re, s, p) ==
    CHOOSE q \in p..(Len(s) + 1) :
        /\ (q > Len(s) \/ Match(re, s, q) > q)
        /\ \A r \in p..(q - 1) : Match(re, s, r) = 0

RECURSIVE ReplaceFrom(_, _, _)

\* the match s[q..e-1] is replaced and the scan goes on at e
ReplaceMatch(re, s, p, q, e) ==
    Sub(s, p, q) \o Subst(re, s, q, e) \o ReplaceFrom(re, s, e)

\* q is the position of the first match from p on
ReplaceNext(re, s, p, q) ==
    IF q > Len(s) THEN Sub(s, p, q) ELSE ReplaceMatch(re, s, p, q, Match(re, s, q))

ReplaceFrom(re, s, p) == ReplaceNext(re, s, p, NextMatch(re, s, p))

ReplaceAll(s, re) == ReplaceFrom(re, s, 1)

(***************************************************************************)
(* The line cleaners and the whole-document cleanups.                       *)
(***************************************************************************)
RECURSIVE ReplaceEach(_, _)
\* the replacements res applied to s one after the other, each on the result
\* of the one before
ReplaceEach(s, res) ==
    IF Len(res) = 0 THEN s ELSE ReplaceEach(ReplaceAll(s, Head(res)), Tail(res))

\* cleanTableLine: conservative cleaning of a line of a table region
cleanTableLine(line) ==
    Trim(ReplaceEach(line, <<"locbr", "br", "u", "em", "strong", "ws", "pipe">>))

\* cleanRegularLine: the cleaning of a line outside every table region
cleanRegularLine(line) ==
    Trim(ReplaceEach(line, <<"br", "u", "em", "strong", "loc", "footnote", "ws">>))

\* applyGlobalCleanups: paragraph spacing, empty headers, broken URLs
applyGlobalCleanups(text) == ReplaceEach(text, <<"blank", "header", "url">>)

(***************************************************************************)
(* Numbers.  A column width is a JavaScript number that need not be an     *)
(* integer (it can be a mean plus ten), so it is kept as an exact fraction *)
(* num / den with den > 0, in lowest terms.                                 *)
(***************************************************************************)
RECURSIVE Gcd(_, _)
Gcd(a, b) == IF b = 0 THEN a ELSE Gcd(b, a % b)

Frac(n, d) == LET g == Gcd(n, d) IN [num |-> n \div g, den |-> d \div g]

Whole(n) == [num |-> n, den |-> 1]

\* a <= b, Math.min and Math.max on fractions
FLe(a, b) == a.num * b.den <= b.num * a.den

FMin(a, b) == IF FLe(a, b) THEN a ELSE b

FMax(a, b) == IF FLe(a, b) THEN b ELSE a

\* ToIntegerOrInfinity of a non-negative number: what padEnd, repeat and
\* substring make of a fractional argument
Trunc(a) == a.num \div a.den

IsInteger(a) == a.den = 1

FPlus(a, n) == Frac(a.num + n * a.den, a.den)

(***************************************************************************)
(* formatTableRegion, in its three parts: parsing the lines into rows,     *)
(* planning the column widths, rendering the rows.                          *)
(***************************************************************************)
\* /^\s*\|[\s\-\|]*\|\s*$/ : an existing separator row
IsSeparatorLine(line) ==
    LET t == Trim(line)
    IN  /\ Len(t) >= 2
        /\ t[1] = "|"
        /\ t[Len(t)] = "|"
        /\ \A k \in 1..Len(t) : IsSpace(t[k]) \/ t[k] = "-" \/ t[k] = "|"

\* line.split('|').map(trim).filter(not an empty first or last piece)
ParseCells(line) ==
    LET pieces  == Split(line, "|")
        n       == Len(pieces)
        trimmed == [k \in 1..n |-> Trim(pieces[k])]
        lo      == IF trimmed[1] = <<>> THEN 2 ELSE 1
        hi      == IF trimmed[n] = <<>> THEN n - 1 ELSE n
    IN  IF hi < lo THEN <<>> ELSE SubSeq(trimmed, lo, hi)

RECURSIVE ParseRows(_)
\* the rows of a region: separator rows, blank lines and lines without a cell are skipped
ParseRows(tableLines) ==
    IF Len(tableLines) = 0 THEN <<>>
    ELSE LET line  == Head(tableLines)
             cells == ParseCells(line)
             rest  == ParseRows(Tail(tableLines))
         IN  IF Trim(line) # <<>> /\ ~IsSeparatorLine(line) /\ Len(cells) > 0
             THEN <<cells>> \o rest
             ELSE rest

RECURSIVE MaxOf(_)
\* Math.max(...xs) of a non-empty sequence of naturals
MaxOf(xs) == IF Len(xs) = 1 THEN xs[1] ELSE Max(xs[1], MaxOf(Tail(xs)))

RECURSIVE SumOf(_)
SumOf(xs) == IF Len(xs) = 0 THEN 0 ELSE xs[1] + SumOf(Tail(xs))

MaxColumns(rows) == MaxOf([r \in 1..Len(rows) |-> Len(rows[r])])

RECURSIVE CellLengths(_, _)
\* the lengths collected for column col (1-based): rows whose cell there is truthy
CellLengths(rows, col) ==
    IF Len(rows) = 0 THEN <<>>
    ELSE LET row  == Head(rows)
             rest == CellLengths(Tail(rows), col)
         IN  IF col <= Len(row) /\ row[col] # <<>>
             THEN <<Len(row[col])>> \o rest
             ELSE rest

\* the short tier ends below 25 instead of at 25
ColumnWidth_strict(cellLengths) ==
    IF Len(cellLengths) = 0 THEN Whole(8)
    ELSE LET avgLength == Frac(SumOf(cellLengths), Len(cellLengths))
             maxLength == MaxOf(cellLengths)
         IN  IF maxLength < 25 THEN Whole(Max(maxLength, 8))
             ELSE IF maxLength <= 60
                  THEN FMax(FMin(Whole((maxLength * 8) \div 10), FPlus(avgLength, 10)),
                            Whole(15))
                  ELSE FMin(Whole(50), FMax(Whole(30), avgLength))

\* the long tier without its cap of 50 characters
ColumnWidth_uncapped(cellLengths) ==
    IF Len(cellLengths) = 0 THEN Whole(8)
    ELSE LET avgLength == Frac(SumOf(cellLengths), Len(cellLengths))
             maxLength == MaxOf(cellLengths)
         IN  IF maxLength <= 25 THEN Whole(Max(maxLength, 8))
             ELSE IF maxLength <= 60
                  THEN FMax(FMin(Whole((maxLength * 8) \div 10), FPlus(avgLength, 10)),
                            Whole(15))
                  ELSE FMax(Whole(30), avgLength)

\* the width planned for one column from the lengths collected for it
ColumnWidth(cellLengths) ==
    IF Len(cellLengths) = 0 THEN Whole(8)
    ELSE LET avgLength == Frac(SumOf(cellLengths), Len(cellLengths))
             maxLength == MaxOf(cellLengths)
         IN  IF maxLength <= 25 THEN Whole(Max(maxLength, 8))
             ELSE IF maxLength <= 60
                  THEN FMax(FMin(Whole((maxLength * 8) \div 10), FPlus(avgLength, 10)),
                            Whole(15))
                  ELSE FMin(Whole(50), FMax(Whole(30), avgLength))

ColumnWidths(rows) ==
    [col \in 1..MaxColumns(rows) |-> ColumnWidth(CellLengths(rows, col))]

\* does the next word still fit: (result + word).length <= width - 3
WordFits(result, word, width) ==
    (Len(result) + Len(word) + 3) * width.den <= width.num

RECURSIVE AccumulateWords(_, _, _)
\* the word loop of the truncation: whole words are taken until one does not fit
AccumulateWords(words, result, width) ==
    IF Len(words) = 0 THEN result
    ELSE LET word == Head(words)
         IN  IF WordFits(result, word, width)
             THEN AccumulateWords(Tail(words),
                                  result \o (IF result # <<>> THEN <<" ">> ELSE <<>>) \o word,
                                  width)
             ELSE result

Ellipsis == <<".", ".", ".">>

\* a cell as long as the width is truncated too
FormatCell_strict(cell, width) ==
    IF Len(cell) * width.den < width.num
    THEN PadEnd(cell, Trunc(width))
    ELSE LET words  == Split(cell, " ")
             acc    == AccumulateWords(words, <<>>, width)
             result == IF Len(acc) = 0
                       THEN Sub(cell, 1, Trunc(FPlus(width, -3)) + 1)
                       ELSE acc
         IN  PadEnd(result \o Ellipsis, Trunc(width))

\* one cell of a rendered row: padded, or truncated with an ellipsis
FormatCell(cell, width) ==
    IF Len(cell) * width.den <= width.num
    THEN PadEnd(cell, Trunc(width))
    ELSE LET words  == Split(cell, " ")
             acc    == AccumulateWords(words, <<>>, width)
             result == IF Len(acc) = 0
                       THEN Sub(cell, 1, Trunc(FPlus(width, -3)) + 1)
                       ELSE acc
         IN  PadEnd(result \o Ellipsis, Trunc(width))

RowLine(cells) == <<"|", " ">> \o Join(cells, <<" ", "|", " ">>) \o <<" ", "|">>

FormatRow(row, columnWidths) ==
    RowLine([col \in 1..Len(columnWidths) |->
                FormatCell(IF col <= Len(row) THEN row[col] ELSE <<>>, columnWidths[col])])

SeparatorRow(columnWidths) ==
    RowLine([col \in 1..Len(columnWidths) |-> Repeat("-", Trunc(columnWidths[col]))])

RECURSIVE FormatRows(_, _, _)
\* the rendered lines of rows[rowIndex..], the separator following the first row
FormatRows(rows, columnWidths, rowIndex) ==
    IF rowIndex > Len(rows) THEN <<>>
    ELSE <<FormatRow(rows[rowIndex], columnWidths)>>
         \o (IF rowIndex = 1 THEN <<SeparatorRow(columnWidths)>> ELSE <<>>)
         \o FormatRows(rows, columnWidths, rowIndex + 1)

\* formatTableRegion with its locals: the parsed rows, the planned widths and
\* the returned lines (rendered is FALSE on the two early returns)
RenderedParts(rows, columnWidths) ==
    [rows |-> rows, columnWidths |-> columnWidths, rendered |-> TRUE,
     out |-> FormatRows(rows, columnWidths, 1)]

RowsParts(tableLines, rows) ==
    IF Len(rows) = 0
    THEN [rows |-> rows, columnWidths |-> <<>>, rendered |-> FALSE, out |-> tableLines]
    ELSE RenderedParts(rows, ColumnWidths(rows))

\* without the early return for a region of fewer than two lines
TableRegionParts_always(tableLines) == RowsParts(tableLines, ParseRows(tableLines))

TableRegionParts(tableLines) ==
    IF Len(tableLines) < 2
    THEN [rows |-> <<>>, columnWidths |-> <<>>, rendered |-> FALSE, out |-> tableLines]
    ELSE RowsParts(tableLines, ParseRows(tableLines))

formatTableRegion(tableLines) == TableRegionParts(tableLines).out

(***************************************************************************)
(* improvedCleanMarkerOutput.  Step 1: the table regions of the document.  *)
(* Line indices and region bounds are 0-based as in the code; a region is  *)
(* a pair <<tableStart, tableEnd>> with both ends included.                 *)
(***************************************************************************)
\* currentTableStart = null
NoStart == -1

\* the line classifier: at least two pipe characters
\* one pipe is enough
IsTableLine_one(line) == PipeCount(line) >= 1

IsTableLine(line) == PipeCount(line) >= 2

\* the region is closed at the line that ends it, not at the line before
ScanStep_inclusive(lines, i, st) ==
    LET isTableLine == IsTableLine(lines[i + 1])
    IN  IF isTableLine /\ ~st.inTable
        THEN [st EXCEPT !.inTable = TRUE, !.currentTableStart = i]
        ELSE IF ~isTableLine /\ st.inTable
             THEN IF st.currentTableStart # NoStart
                  THEN [inTable |-> FALSE, currentTableStart |-> NoStart,
                        tableRegions |->
                            Append(st.tableRegions, <<st.currentTableStart, i>>)]
                  ELSE [st EXCEPT !.inTable = FALSE]
             ELSE st

\* one iteration of the scan loop, at index i, on the loop state st
ScanStep(lines, i, st) ==
    LET isTableLine == IsTableLine(lines[i + 1])
    IN  IF isTableLine /\ ~st.inTable
        THEN [st EXCEPT !.inTable = TRUE, !.currentTableStart = i]
        ELSE IF ~isTableLine /\ st.inTable
             THEN IF st.currentTableStart # NoStart
                  THEN [inTable |-> FALSE, currentTableStart |-> NoStart,
                        tableRegions |->
                            Append(st.tableRegions, <<st.currentTableStart, i - 1>>)]
                  ELSE [st EXCEPT !.inTable = FALSE]
             ELSE st

RECURSIVE ScanLines(_, _, _)
ScanLines(lines, i, st) ==
    IF i >= Len(lines) THEN st ELSE ScanLines(lines, i + 1, ScanStep(lines, i, st))

\* the regions after the scan and the flush of a table that reaches the last line
TableRegions(lines) ==
    LET st == ScanLines(lines, 0,
                        [inTable |-> FALSE, currentTableStart |-> NoStart,
                         tableRegions |-> <<>>])
    IN  IF st.inTable /\ st.currentTableStart # NoStart
        THEN Append(st.tableRegions, <<st.currentTableStart, Len(lines) - 1>>)
        ELSE st.tableRegions

(***************************************************************************)
(* Step 2: the lines are cleaned region by region.  Besides cleanedLines   *)
(* and processedLines the model keeps a log of the index ranges the loops  *)
(* walk over, [start, end) with the kind of cleaning applied, and for a    *)
(* table region the locals of formatTableRegion.                            *)
(***************************************************************************)
\* lines[from..to-1] (0-based), each cleaned as a regular line
CleanRegularRange(lines, from, to) ==
    [k \in 1..(IF to > from THEN to - from ELSE 0) |-> cleanRegularLine(lines[from + k])]

\* lines[from..to] (0-based, both included), each cleaned as a table line
CleanTableRange(lines, from, to) ==
    [k \in 1..(IF to >= from THEN to - from + 1 ELSE 0) |-> cleanTableLine(lines[from + k])]

ProseEntry(from, to, out) ==
    [kind |-> "Prose", start |-> from, end |-> to, tableLines |-> <<>>, rows |-> <<>>,
     columnWidths |-> <<>>, rendered |-> FALSE, out |-> out]

TableEntry(from, to, tableLines, parts) ==
    [kind |-> "Table", start |-> from, end |-> to, tableLines |-> tableLines,
     rows |-> parts.rows, columnWidths |-> parts.columnWidths,
     rendered |-> parts.rendered, out |-> parts.out]

\* the lines out of the prose loop are put before the lines already there
AppendProse_front(acc, to, out) ==
    [acc EXCEPT !.cleanedLines = out \o @,
                !.log = IF to > acc.processedLines
                        THEN Append(@, ProseEntry(acc.processedLines, to, out))
                        ELSE @]

\* the lines out of the prose loop over [acc.processedLines, to) are appended
AppendProse(acc, to, out) ==
    [acc EXCEPT !.cleanedLines = @ \o out,
                !.log = IF to > acc.processedLines
                        THEN Append(@, ProseEntry(acc.processedLines, to, out))
                        ELSE @]

\* the prose loop from processedLines up to (not including) index to
ProseLoop(lines, acc, to) ==
    AppendProse(acc, to, CleanRegularRange(lines, acc.processedLines, to))

\* the lines of a formatted table region are appended
\* processedLines stops at the last line of the table instead of after it
AppendTable_stale(acc, tableStart, tableEnd, tableLines, parts) ==
    [cleanedLines   |-> acc.cleanedLines \o parts.out,
     processedLines |-> tableEnd,
     log            |-> Append(acc.log,
                               TableEntry(tableStart, tableEnd + 1, tableLines, parts))]

AppendTable(acc, tableStart, tableEnd, tableLines, parts) ==
    [cleanedLines   |-> acc.cleanedLines \o parts.out,
     processedLines |-> tableEnd + 1,
     log            |-> Append(acc.log,
                               TableEntry(tableStart, tableEnd + 1, tableLines, parts))]

FormatRegion(acc, tableStart, tableEnd, tableLines) ==
    AppendTable(acc, tableStart, tableEnd, tableLines, TableRegionParts(tableLines))

\* the body of the loop over tableRegions, for the region <<tableStart, tableEnd>>
RegionStep(lines, acc, region) ==
    FormatRegion(ProseLoop(lines, acc, region[1]), region[1], region[2],
                 CleanTableRange(lines, region[1], region[2]))

RECURSIVE RegionLoop(_, _, _, _)
RegionLoop(lines, tableRegions, k, acc) ==
    IF k > Len(tableRegions) THEN acc
    ELSE RegionLoop(lines, tableRegions, k + 1, RegionStep(lines, acc, tableRegions[k]))

\* Step 2 as a whole, the remaining non-table lines included
CleanLines(lines, tableRegions) ==
    ProseLoop(lines,
              RegionLoop(lines, tableRegions, 1,
                         [cleanedLines |-> <<>>, processedLines |-> 0, log |-> <<>>]),
              Len(lines))

\* Step 3: the lines are joined, the global cleanups applied, the result trimmed
FinalResult(cleanedLines) == Trim(applyGlobalCleanups(Join(cleanedLines, <<NL>>)))

CleanedParts(lines, tableRegions, cleaned) ==
    [lines        |-> lines,
     tableRegions |-> tableRegions,
     log          |-> cleaned.log,
     cleanedLines |-> cleaned.cleanedLines,
     result       |-> FinalResult(cleaned.cleanedLines)]

RegionsParts(lines, tableRegions) ==
    CleanedParts(lines, tableRegions, CleanLines(lines, tableRegions))

LinesParts(lines) == RegionsParts(lines, TableRegions(lines))

\* improvedCleanMarkerOutput with its locals
ReformatParts(text) == LinesParts(Split(text, NL))

improvedCleanMarkerOutput(text) == ReformatParts(text).result

(***************************************************************************)
(* cleanMarkerOutput.  A JavaScript value is a record: its type tag, the   *)
(* characters of a string, the value of a number.                           *)
(***************************************************************************)
StrVal(chars) == [kind |-> "string", chars |-> chars, num |-> 0]

NumVal(n) == [kind |-> "number", chars |-> <<>>, num |-> n]

Undefined == [kind |-> "undefined", chars |-> <<>>, num |-> 0]

Null == [kind |-> "null", chars |-> <<>>, num |-> 0]

\* !v
Falsy(v) ==
    \/ v.kind \in {"undefined", "null"}
    \/ v.kind = "string" /\ v.chars = <<>>
    \/ v.kind = "number" /\ v.num = 0

\* String(v) for the values of the model
StringOf(v) ==
    CASE v.kind = "string"    -> v.chars
      [] v.kind = "undefined" -> <<"u", "n", "d", "e", "f", "i", "n", "e", "d">>
      [] v.kind = "null"      -> <<"n", "u", "l", "l">>
      [] v.kind = "number"    -> IF v.num = 0 THEN <<"0">> ELSE <<"4", "2">>

\* a guard without the typeof test: every truthy value enters the pipeline,
\* coerced to a string
cleanMarkerOutput_coerce(markdownContent) ==
    IF Falsy(markdownContent)
    THEN [type |-> "return", error |-> "", value |-> markdownContent]
    ELSE [type |-> "return", error |-> "",
          value |-> StrVal(improvedCleanMarkerOutput(StringOf(markdownContent)))]

\* the completion of a call of cleanMarkerOutput: it has no throw statement,
\* and returns its argument as it is unless that is a non-empty string
cleanMarkerOutput(markdownContent) ==
    IF Falsy(markdownContent) \/ markdownContent.kind # "string"
    THEN [type |-> "return", error |-> "", value |-> markdownContent]
    ELSE [type |-> "return", error |-> "",
          value |-> StrVal(improvedCleanMarkerOutput(markdownContent.chars))]

(***************************************************************************)
(* The inputs of the reformatter: documents of up to MaxLines lines drawn  *)
(* from a pool of lines, and values that are no non-empty string.          *)
(***************************************************************************)
MaxLines == 3

\* "ab": a prose line
LineProse == <<"a", "b">>

\* "a|b": one pipe
LineOnePipe == <<"a", "|", "b">>

\* "|a|bb|": a row of short cells
LineShortRow == <<"|", "a", "|", "b", "b", "|">>

\* "|--|--|": a separator row between outer pipes
LineSeparator == <<"|", "-", "-", "|", "-", "-", "|">>

\* "-|-|-": dashes and pipes without outer pipes
LineOpenSeparator == <<"-", "|", "-", "|", "-">>

\* a cell of 40 characters in four words of 13, 14, 1 and 9 letters
CellWords ==
    Repeat("a", 13) \o <<" ">> \o Repeat("b", 14) \o <<" ", "c", " ">> \o Repeat("d", 9)

\* "|<CellWords>|e|": a row whose first cell falls in the medium tier
LineWordsRow == <<"|">> \o CellWords \o <<"|", "e", "|">>

\* "|x...x|": a one-cell row, 40 characters without a space
LineLongWordRow == <<"|">> \o Repeat("x", 40) \o <<"|">>

\* "|y...y y|f|": a row whose first cell of 64 characters falls in the long tier
LineVeryLongRow == <<"|">> \o Repeat("y", 62) \o <<" ", "y", "|", "f", "|">>

LinePool ==
    {LineProse, LineOnePipe, LineShortRow, LineSeparator, LineOpenSeparator,
     LineWordsRow, LineLongWordRow, LineVeryLongRow}

\* the documents of exactly n lines
RECURSIVE DocsOf(_)
DocsOf(n) ==
    IF n = 1 THEN LinePool
    ELSE {d \o <<NL>> \o l : d \in DocsOf(n - 1), l \in LinePool}

Documents == UNION {DocsOf(n) : n \in 1..MaxLines}

NonStrings == {Undefined, Null, NumVal(0), NumVal(42)}

Inputs == {StrVal(d) : d \in Documents} \cup {StrVal(<<>>)} \cup NonStrings

(***************************************************************************)
(* Tables for the width planner: documents of up to MaxRows rows "|a|",    *)
(* "|a|<cell>|" or "|a|<cell>|b|", the cell being of a length of CellLens: *)
(* empty, short, at both sides of the tier limits 25 and 60, and long.     *)
(***************************************************************************)
MaxRows == 2

CellLens == {0, 1, 25, 26, 40, 60, 61, 70}

PlanCells == {Repeat("x", n) : n \in CellLens}

PlanRows ==
    {<<"|", "a", "|">>}
        \cup {<<"|", "a", "|">> \o c \o <<"|">> : c \in PlanCells}
        \cup {<<"|", "a", "|">> \o c \o <<"|", "b", "|">> : c \in PlanCells}

\* the tables of exactly n rows
RECURSIVE TablesOf(_)
TablesOf(n) ==
    IF n = 1 THEN PlanRows
    ELSE {d \o <<NL>> \o l : d \in TablesOf(n - 1), l \in PlanRows}

PlanInputs == {StrVal(d) : d \in UNION {TablesOf(n) : n \in 1..MaxRows}} \cup {StrVal(<<>>)}

(***************************************************************************)
(* PDF conversion: the convert_pdf tool, convertPdfToMd,                    *)
(* convertPdfToMarkdown and the two engines.  A path is a string, NoPath    *)
(* when the caller gave none; an option left out is "omitted".  The         *)
(* outcome of an engine's subprocess is a record run = [success, content,   *)
(* stderr].                                                                 *)
(***************************************************************************)
NoPath == ""

AutoCleanNote == "Content automatically cleaned (table-aware)"

\* a ConversionResult, with the content written to output_file (Undefined: none)
\* a ConversionResult with its statistics; write is the content that the
\* conversion has written to the output path (Undefined: nothing was written)
ConversionResult(success, markdown, outputFile, warnings, error, write) ==
    [success |-> success, markdown_content |-> markdown, output_file |-> outputFile,
     warnings |-> warnings, error |-> error, write |-> write,
     char_count |-> IF success THEN Len(markdown.chars) ELSE 0,
     page_count |-> IF success THEN Max(1, Len(markdown.chars) \div 3000) ELSE 0,
     images_extracted |-> 0]

Failure(error) == ConversionResult(FALSE, Undefined, NoPath, <<>>, error, Undefined)

NoResult == Failure("")

\* the defaults that the schema fills in
ConvertPdfArgsSchema(args) ==
    [output_path |-> args.output_path,
     options |->
         [engine     |-> IF args.engine = "omitted" THEN "marker" ELSE args.engine,
          auto_clean |-> IF args.auto_clean = "omitted" THEN "true" ELSE args.auto_clean]]

\* the success of convertWithMarker: cleaning, the write and the result
MarkerSuccess(finalContent, outputPath, options) ==
    ConversionResult(TRUE, finalContent, outputPath,
                     IF options.auto_clean # "false" THEN <<AutoCleanNote>> ELSE <<>>,
                     "",
                     IF outputPath # NoPath THEN finalContent ELSE Undefined)

\* the flag is not looked at: the content is cleaned and the note given always
convertWithMarker_always(env, run, outputPath, options) ==
    IF ~env.marker THEN Failure("Marker not available")
    ELSE IF ~run.success \/ run.content = <<>> THEN Failure("Marker conversion failed")
    ELSE MarkerSuccess(cleanMarkerOutput(StrVal(run.content)).value, outputPath,
                       [options EXCEPT !.auto_clean = "true"])

convertWithMarker(env, run, outputPath, options) ==
    IF ~env.marker THEN Failure("Marker not available")
    ELSE IF ~run.success \/ run.content = <<>> THEN Failure("Marker conversion failed")
    ELSE MarkerSuccess(IF options.auto_clean # "false"
                       THEN cleanMarkerOutput(StrVal(run.content)).value
                       ELSE StrVal(run.content),
                       outputPath, options)

\* the engine cleans its output like convertWithMarker does
convertWithPymupdf4llm_clean(env, run, outputPath, options) ==
    IF ~env.pdfExists THEN Failure("ENOENT")
    ELSE IF ~run.success THEN Failure("conversion failed")
    ELSE MarkerSuccess(IF options.auto_clean # "false"
                       THEN cleanMarkerOutput(StrVal(run.content)).value
                       ELSE StrVal(run.content),
                       outputPath, options)

\* the Python script writes md_content itself; options.auto_clean is not read
convertWithPymupdf4llm(env, run, outputPath, options) ==
    IF ~env.pdfExists THEN Failure("ENOENT")
    ELSE IF ~run.success THEN Failure("conversion failed")
    ELSE ConversionResult(TRUE, StrVal(run.content), outputPath,
                          IF run.stderr THEN <<"stderr">> ELSE <<>>,
                          "",
                          IF outputPath # NoPath THEN StrVal(run.content) ELSE Undefined)

convertPdfToMarkdown(env, run, outputPath, options) ==
    IF ~env.pdfExists THEN Failure("ENOENT")
    ELSE IF (IF options.engine = "omitted" THEN "marker" ELSE options.engine) = "marker"
         THEN convertWithMarker(env, run, outputPath, options)
         ELSE convertWithPymupdf4llm(env, run, outputPath, options)

\* convert_pdf: the engine after the dependency checks, "none" when they throw
SelectEngine(env, engine) ==
    IF engine = "marker"
    THEN IF env.marker THEN "marker"
         ELSE IF env.pymupdf4llm THEN "pymupdf4llm" ELSE "none"
    ELSE IF env.pymupdf4llm THEN "pymupdf4llm" ELSE "none"

\* convert_pdf: the message of the error thrown by the dependency checks
UnavailableMessage(engine) ==
    IF engine = "marker" THEN "Neither marker nor pymupdf4llm available"
    ELSE "pymupdf4llm not available"

ToolResponse(isError, text, engine, warnings, outputFile, markdown) ==
    [isError |-> isError, text |-> text, engine |-> engine, warnings |-> warnings,
     output_file |-> outputFile, markdown |-> markdown]

\* the catch of the request handler: "Error: " and the message of the error
ErrorResponse(message) == ToolResponse(TRUE, message, "", <<>>, NoPath, Undefined)

NoResponse == ToolResponse(FALSE, "", "", <<>>, NoPath, Undefined)

\* convert_pdf: the response built from the result
ConvertPdfResponse(result, actualEngine) ==
    IF result.success
    THEN ToolResponse(FALSE, "PDF Conversion Successful", actualEngine,
                      result.warnings, result.output_file,
                      IF result.output_file = NoPath /\ ~Falsy(result.markdown_content)
                      THEN result.markdown_content ELSE Undefined)
    ELSE ErrorResponse(IF result.error # "" THEN result.error ELSE "Conversion failed")

\* the path convertPdfToMd derives from the path of the PDF
MdPath == "doc.md"

OutPath == "out.md"

\* the arguments of convert_pdf
ConvertPdfArgs ==
    [engine : {"omitted", "marker", "pymupdf4llm"},
     auto_clean : {"omitted", "true", "false"},
     output_path : {NoPath, OutPath}]

\* what an engine can produce: nothing, prose that the reformatter leaves as it
\* is, and a table that it renders anew
RawProse == LineProse

RawTable == LineShortRow \o <<NL>> \o LineShortRow

EngineRuns ==
    [success : BOOLEAN, content : {<<>>, RawProse, RawTable}, stderr : BOOLEAN]

Environments == [marker : BOOLEAN, pymupdf4llm : BOOLEAN, pdfExists : BOOLEAN]

(***************************************************************************)
(* State.                                                                   *)
(***************************************************************************)
VARIABLES
    pc,            \* "called": cleanMarkerOutput is about to run; "returned": it has
    pass,          \* 1 for a call on an input, 2 for the call on the output of pass 1
    input,         \* the argument of the call
    lines,         \* improvedCleanMarkerOutput: the split document
    tableRegions,  \* improvedCleanMarkerOutput: the regions found by Step 1
    log,           \* the index ranges walked by Step 2, in order
    cleanedLines,  \* improvedCleanMarkerOutput: the lines after Step 2
    completion,    \* how the call completed: [type, value]
    first,         \* the log and completion of pass 1, kept for pass 2
    env,           \* which engines are installed, and whether the PDF exists
    request,       \* the last conversion asked for
    run,           \* the outcome of the engine's subprocess in that conversion
    used,          \* the engine that produced the result, "none" without one
    result,        \* the ConversionResult of that conversion
    response,      \* the response of convert_pdf
    files,         \* the content of the files at the output paths
    calls,         \* the number of conversions so far
    inv,           \* the calls of the reformatter that run side by side
    disk,          \* the file system: the content of the files, and the directories
    report,        \* what the last call of a document_organizer tool did and answered
    previous,      \* the report of the call before it
    turns          \* the number of calls of document_organizer tools so far

reformatVars ==
    <<pc, pass, input, lines, tableRegions, log, cleanedLines, completion, first>>

convertVars == <<env, request, run, used, result, response, files, calls>>

callVars == <<inv>>

organizerVars == <<disk, report, previous, turns>>

otherVars == <<callVars, organizerVars>>

vars == <<reformatVars, convertVars, otherVars>>

NoCompletion == [type |-> "none", error |-> "", value |-> Undefined]

NoFirst == [log |-> <<>>, completion |-> NoCompletion]

NoRequest == [tool |-> "", engine |-> "", auto_clean |-> "", output_path |-> NoPath]

NoRun == [success |-> FALSE, content |-> <<>>, stderr |-> FALSE]

NoFiles == [p \in {OutPath, MdPath} |-> Undefined]

\* no conversion has been asked for
ConvertIdle ==
    /\ request = NoRequest
    /\ run = NoRun
    /\ used = "none"
    /\ result = NoResult
    /\ response = NoResponse
    /\ files = NoFiles
    /\ calls = 0

\* the callers that may have a call of the reformatter under way at once
MaxCallers == 2

Callers == 1..MaxCallers

\* a caller without a call: where it is, the argument and the returned value of
\* its call, whether another call took a step during it, and the locals of
\* improvedCleanMarkerOutput
NoInvocation ==
    [pc |-> "idle", input |-> <<>>, output |-> Undefined, met |-> FALSE,
     lines |-> <<>>, tableRegions |-> <<>>, cleanedLines |-> <<>>]

CallsIdle == inv = [p \in Callers |-> NoInvocation]

\* fs: a path is the sequence of its names, a name a string; files maps the
\* paths of the files to their content
NoDisk == [files |-> <<>>, dirs |-> {}]

NoReport == [tool |-> ""]

OrganizerIdle ==
    /\ disk = NoDisk
    /\ report = NoReport
    /\ previous = NoReport
    /\ turns = 0

OthersIdle == CallsIdle /\ OrganizerIdle

\* no call of the reformatter is under way
ReformatIdle ==
    /\ pc = "idle"
    /\ pass = 1
    /\ input = Undefined
    /\ lines = <<>>
    /\ tableRegions = <<>>
    /\ log = <<>>
    /\ cleanedLines = <<>>
    /\ completion = NoCompletion
    /\ first = NoFirst

Init ==
    /\ pc = "called"
    /\ pass = 1
    /\ input \in Inputs
    /\ lines = <<>>
    /\ tableRegions = <<>>
    /\ log = <<>>
    /\ cleanedLines = <<>>
    /\ completion = NoCompletion
    /\ first = NoFirst
    /\ env = [marker |-> TRUE, pymupdf4llm |-> TRUE, pdfExists |-> TRUE]
    /\ ConvertIdle
    /\ OthersIdle

\* cleanMarkerOutput(input) returns without entering the pipeline
ReturnUnchanged ==
    /\ pc = "called"
    /\ Falsy(input) \/ input.kind # "string"
    /\ completion' = cleanMarkerOutput(input)
    /\ pc' = "returned"
    /\ UNCHANGED <<pass, input, lines, tableRegions, log, cleanedLines, first>>
    /\ UNCHANGED <<convertVars, otherVars>>

\* the locals of the run of improvedCleanMarkerOutput
Locals(parts) ==
    /\ lines' = parts.lines
    /\ tableRegions' = parts.tableRegions
    /\ log' = parts.log
    /\ cleanedLines' = parts.cleanedLines

\* cleanMarkerOutput(input) runs improvedCleanMarkerOutput
Reformat ==
    /\ pc = "called"
    /\ ~(Falsy(input) \/ input.kind # "string")
    /\ Locals(ReformatParts(input.chars))
    /\ completion' = cleanMarkerOutput(input)
    /\ pc' = "returned"
    /\ UNCHANGED <<pass, input, first>>
    /\ UNCHANGED <<convertVars, otherVars>>

\* the caller passes the returned value to cleanMarkerOutput again
ReformatAgain ==
    /\ pc = "returned"
    /\ pass = 1
    /\ completion.type = "return"
    /\ first' = [log |-> log, completion |-> completion]
    /\ input' = completion.value
    /\ pass' = 2
    /\ pc' = "called"
    /\ lines' = <<>>
    /\ tableRegions' = <<>>
    /\ log' = <<>>
    /\ cleanedLines' = <<>>
    /\ completion' = NoCompletion
    /\ UNCHANGED <<convertVars, otherVars>>

Next == ReturnUnchanged \/ Reformat \/ ReformatAgain

Spec == Init /\ [][Next]_vars

\* the reformatter called on the tables for the width planner
InitPlan ==
    /\ pc = "called"
    /\ pass = 1
    /\ input \in PlanInputs
    /\ lines = <<>>
    /\ tableRegions = <<>>
    /\ log = <<>>
    /\ cleanedLines = <<>>
    /\ completion = NoCompletion
    /\ first = NoFirst
    /\ env = [marker |-> TRUE, pymupdf4llm |-> TRUE, pdfExists |-> TRUE]
    /\ ConvertIdle
    /\ OthersIdle

SpecPlan == InitPlan /\ [][Next]_vars

(***************************************************************************)
(* Conversions: calls of the convert_pdf tool and of convertPdfToMd, each  *)
(* with its engine's subprocess run to its end.                             *)
(***************************************************************************)
\* the conversions of a run
MaxCalls == 2

InitConvert ==
    /\ ReformatIdle
    /\ env \in Environments
    /\ ConvertIdle
    /\ OthersIdle

\* the state after a conversion
Converts(req, r, engine, res, resp) ==
    /\ request' = req
    /\ run' = r
    /\ used' = IF res.success THEN engine ELSE "none"
    /\ result' = res
    /\ response' = resp
    /\ files' = IF res.write = Undefined THEN files
                 ELSE [files EXCEPT ![res.output_file] = res.write]

ConvertPdfRequest(args) ==
    [tool |-> "convert_pdf", engine |-> args.engine, auto_clean |-> args.auto_clean,
     output_path |-> args.output_path]

ConvertPdfDone(args, r, engine, res) ==
    Converts(ConvertPdfRequest(args), r, engine, res, ConvertPdfResponse(res, engine))

ConvertPdfWith(args, r, parsed, engine) ==
    IF engine = "none"
    THEN Converts(ConvertPdfRequest(args), r, engine, NoResult,
                  ErrorResponse(UnavailableMessage(parsed.options.engine)))
    ELSE ConvertPdfDone(args, r, engine,
                        convertPdfToMarkdown(env, r, parsed.output_path,
                                             [parsed.options EXCEPT !.engine = engine]))

ConvertPdfParsed(args, r, parsed) ==
    ConvertPdfWith(args, r, parsed, SelectEngine(env, parsed.options.engine))

\* the handler of the convert_pdf tool
ConvertPdf ==
    /\ calls < MaxCalls
    /\ calls' = calls + 1
    /\ UNCHANGED <<env, reformatVars, otherVars>>
    /\ \E args \in ConvertPdfArgs, r \in EngineRuns :
           ConvertPdfParsed(args, r, ConvertPdfArgsSchema(args))

\* convertPdfToMd(pdfPath), for the batch tools
ConvertPdfToMd ==
    /\ calls < MaxCalls
    /\ calls' = calls + 1
    /\ UNCHANGED <<env, reformatVars, otherVars>>
    /\ \E r \in EngineRuns :
        Converts([tool |-> "convertPdfToMd", engine |-> "marker", auto_clean |-> "true",
                  output_path |-> MdPath],
                 r, "marker",
                 convertPdfToMarkdown(env, r, MdPath,
                                      [engine |-> "marker", auto_clean |-> "true"]),
                 NoResponse)

NextConvert == ConvertPdf \/ ConvertPdfToMd

SpecConvert == InitConvert /\ [][NextConvert]_vars

(***************************************************************************)
(* Calls of the reformatter side by side.  A call of                        *)
(* improvedCleanMarkerOutput runs its three steps without a break; here    *)
(* the steps of different calls may interleave in every order, which is    *)
(* more than the runtime allows.                                            *)
(***************************************************************************)
\* the documents of the callers
CallDocs ==
    {RawProse, RawTable, RawProse \o <<NL>> \o RawTable,
     LineWordsRow \o <<NL>> \o LineShortRow}

\* every call keeps its locals in one place, whoever makes it
Frame_shared(p) == 1

\* the activation of improvedCleanMarkerOutput that holds the locals of the call
\* of p: lines, tableRegions and cleanedLines are declared inside the function
Frame(p) == p

InitCalls ==
    /\ ReformatIdle
    /\ env = [marker |-> TRUE, pymupdf4llm |-> TRUE, pdfExists |-> TRUE]
    /\ ConvertIdle
    /\ OthersIdle

InFlight(p) == inv[p].pc \in {"step1", "step2", "step3"}

\* a step of p is seen by every other call under way
Meets(p, next) ==
    [q \in Callers |-> IF q # p /\ InFlight(q) THEN [next[q] EXCEPT !.met = TRUE]
                       ELSE next[q]]

\* improvedCleanMarkerOutput(doc) is entered: the split, and the empty regions
Invoke(p) ==
    /\ inv[p].pc \in {"idle", "returned"}
    /\ UNCHANGED <<reformatVars, convertVars, organizerVars>>
    /\ \E doc \in CallDocs :
           inv' = Meets(p, [inv EXCEPT ![p].pc = "step1",
                                       ![p].input = doc,
                                       ![p].output = Undefined,
                                       ![p].met = FALSE,
                                       ![Frame(p)].lines = Split(doc, NL),
                                       ![Frame(p)].tableRegions = <<>>,
                                       ![Frame(p)].cleanedLines = <<>>])

\* Step 1: the table regions of the lines
Segment(p) ==
    /\ inv[p].pc = "step1"
    /\ UNCHANGED <<reformatVars, convertVars, organizerVars>>
    /\ inv' = Meets(p, [inv EXCEPT ![p].pc = "step2",
                                   ![Frame(p)].tableRegions =
                                       TableRegions(inv[Frame(p)].lines)])

\* Step 2: the cleaned lines
Assemble(p) ==
    /\ inv[p].pc = "step2"
    /\ UNCHANGED <<reformatVars, convertVars, organizerVars>>
    /\ inv' = Meets(p, [inv EXCEPT ![p].pc = "step3",
                                   ![Frame(p)].cleanedLines =
                                       CleanLines(inv[Frame(p)].lines,
                                                  inv[Frame(p)].tableRegions).cleanedLines])

\* Step 3: the result is returned
Finish(p) ==
    /\ inv[p].pc = "step3"
    /\ UNCHANGED <<reformatVars, convertVars, organizerVars>>
    /\ inv' = Meets(p, [inv EXCEPT ![p].pc = "returned",
                                   ![p].output =
                                       FinalResult(inv[Frame(p)].cleanedLines)])

NextCalls == \E p \in Callers : Invoke(p) \/ Segment(p) \/ Assemble(p) \/ Finish(p)

SpecCalls == InitCalls /\ [][NextCalls]_vars

(***************************************************************************)
(* Paths and the file system of the document_organizer tools.               *)
(***************************************************************************)
Alphabet == <<"a", "b", "c", "d", "e", "f", "g", "h", "i", "j", "k", "l", "m",
              "n", "o", "p", "q", "r", "s", "t", "u", "v", "w", "x", "y", "z">>

Capitals == <<"A", "B", "C", "D", "E", "F", "G", "H", "I", "J", "K", "L", "M",
              "N", "O", "P", "Q", "R", "S", "T", "U", "V", "W", "X", "Y", "Z">>

\* String.prototype.toLowerCase
ToLowerCase(s) ==
    [k \in 1..Len(s) |->
        IF s[k] \in Upper THEN Alphabet[CHOOSE i \in 1..Len(Capitals) : Capitals[i] = s[k]]
        ELSE s[k]]

\* [a-zA-Z0-9]
IsAlnum(c) == c \in Lower \/ c \in Upper \/ c \in Digit

EndsWith(s, suffix) ==
    Len(s) >= Len(suffix) /\ At(s, Len(s) - Len(suffix) + 1, suffix)

\* String.prototype.includes
Includes(s, lit) == \E p \in 1..Len(s) : At(s, p, lit)

\* path.join(dir, name)
PathJoin(dir, name) == Append(dir, name)

\* path.dirname
Dirname(path) == SubSeq(path, 1, Len(path) - 1)

\* path.basename(path)
Basename(path) == path[Len(path)]

\* path.basename(path, ext): the extension is cut off a longer name that ends with it
BasenameWithout(path, ext) ==
    IF Len(Basename(path)) > Len(ext) /\ EndsWith(Basename(path), ext)
    THEN SubSeq(Basename(path), 1, Len(Basename(path)) - Len(ext))
    ELSE Basename(path)

\* path.extname: from the last dot on, nothing when the name has none after
\* its first character
Extname(name) ==
    IF \E i \in 2..Len(name) : name[i] = "."
    THEN SubSeq(name, CHOOSE i \in 2..Len(name) :
                          name[i] = "." /\ \A j \in (i + 1)..Len(name) : name[j] # ".",
                Len(name))
    ELSE <<>>

ExtPdf == <<".", "p", "d", "f">>

ExtMd == <<".", "m", "d">>

\* the path lies below the directory
Under(dir, path) == Len(path) > Len(dir) /\ SubSeq(path, 1, Len(dir)) = dir

IsFile(d, path) == path \in DOMAIN d.files

\* fs.access succeeds
Exists(d, path) == IsFile(d, path) \/ path \in d.dirs

\* fs.writeFile
WriteFile(d, path, content) ==
    [d EXCEPT !.files = [q \in DOMAIN d.files \cup {path} |->
                            IF q = path THEN content ELSE d.files[q]]]

\* fs.unlink
Unlink(d, path) ==
    [d EXCEPT !.files = [q \in DOMAIN d.files \ {path} |-> d.files[q]]]

\* fs.mkdir(path, { recursive: true }): the directory and those above it
Mkdir(d, path) ==
    [d EXCEPT !.dirs = d.dirs \cup {SubSeq(path, 1, n) : n \in 1..Len(path)}]

\* the enumerations of a set: fs.readdir fixes no order
Orders(S) ==
    {o \in [1..Cardinality(S) -> S] : \A i, j \in 1..Cardinality(S) : o[i] = o[j] => i = j}

\* findPdfFiles(dirPath, recursive): the files with the extension .pdf, in
\* whatever case, in the directory and, if recursive, below it
findPdfFiles(d, dirPath, recursive) ==
    {path \in DOMAIN d.files :
        /\ Under(dirPath, path)
        /\ recursive \/ Dirname(path) = dirPath
        /\ ToLowerCase(Extname(Basename(path))) = ExtPdf}

\* basename.replace(/\s+/g, '_')
RECURSIVE SpacesToUnderscore(_, _)
SpacesToUnderscore(name, p) ==
    IF p > Len(name) THEN <<>>
    ELSE IF IsSpace(name[p]) THEN <<"_">> \o SpacesToUnderscore(name, SkipSpaces(name, p))
    ELSE <<name[p]>> \o SpacesToUnderscore(name, p + 1)

\* basename.replace(/[^a-zA-Z0-9]/g, '_')
Sanitized(name) == [k \in 1..Len(name) |-> IF IsAlnum(name[k]) THEN name[k] ELSE "_"]

\* checkMdExists looks for the first name only
possibleMdPaths_plain(pdfPath) ==
    <<PathJoin(Dirname(pdfPath), BasenameWithout(pdfPath, ExtPdf) \o ExtMd)>>

\* checkMdExists: the names a Markdown file of the PDF may have
possibleMdPaths(pdfPath) ==
    <<PathJoin(Dirname(pdfPath), BasenameWithout(pdfPath, ExtPdf) \o ExtMd),
      PathJoin(Dirname(pdfPath),
               SpacesToUnderscore(BasenameWithout(pdfPath, ExtPdf), 1) \o ExtMd),
      PathJoin(Dirname(pdfPath), Sanitized(BasenameWithout(pdfPath, ExtPdf)) \o ExtMd)>>

checkMdExists(d, pdfPath) ==
    \E k \in 1..Len(possibleMdPaths(pdfPath)) : Exists(d, possibleMdPaths(pdfPath)[k])

\* convertPdfToMd: the path of the Markdown file
MdPathOf(pdfPath) ==
    PathJoin(Dirname(pdfPath), Sanitized(BasenameWithout(pdfPath, ExtPdf)) \o ExtMd)

\* convertPdfToMd: the returned value, and the disk after the conversion
MdResult(d, pdfPath, outcome) ==
    [success |-> outcome.success,
     mdPath  |-> IF outcome.success THEN MdPathOf(pdfPath) ELSE <<>>,
     error   |-> outcome.error,
     outcome |-> outcome,
     disk    |-> IF outcome.write # Undefined
                 THEN WriteFile(d, MdPathOf(pdfPath), outcome.write)
                 ELSE d]

\* convertPdfToMd(pdfPath) on the disk d, the engine's subprocess ending as r
convertPdfToMd(e, r, d, pdfPath) ==
    MdResult(d, pdfPath,
             convertPdfToMarkdown([e EXCEPT !.pdfExists = IsFile(d, pdfPath)], r, MdPath,
                                  [engine |-> "marker", auto_clean |-> "true"]))

\* the outcomes of the engine in the batch tools
BatchRuns ==
    {[success |-> TRUE, content |-> RawProse, stderr |-> FALSE],
     [success |-> TRUE, content |-> <<>>, stderr |-> FALSE], NoRun}

\* convert_missing: the PDF has a Markdown file and is passed over
Skipped(st, pdfPath) ==
    [st EXCEPT !.examined = Append(@, [pdf_path |-> pdfPath, before |-> st.disk,
                                       attempted |-> FALSE])]

\* convert_missing: the PDF was converted, with or without success
Attempted(st, pdfPath, converted) ==
    [disk |-> converted.disk,
     examined |-> Append(st.examined, [pdf_path |-> pdfPath, before |-> st.disk,
                                       attempted |-> TRUE, after |-> converted.disk,
                                       result |-> converted.outcome]),
     conversions |-> Append(st.conversions,
                            [pdf_path |-> pdfPath, success |-> converted.success,
                             mdPath |-> converted.mdPath, error |-> converted.error])]

\* convert_missing: one round of the loop
Examine(e, r, st, pdfPath) ==
    IF checkMdExists(st.disk, pdfPath) THEN Skipped(st, pdfPath)
    ELSE Attempted(st, pdfPath, convertPdfToMd(e, r, st.disk, pdfPath))

\* the loop of convert_missing over pdfsToCheck from the i-th on: each PDF is
\* examined, and converted when it has no Markdown file
RECURSIVE ConvertMissingLoop(_, _, _, _, _)
ConvertMissingLoop(e, rs, pdfsToCheck, i, st) ==
    IF i > Len(pdfsToCheck) THEN st
    ELSE ConvertMissingLoop(e, rs, pdfsToCheck, i + 1,
                            Examine(e, rs[i], st, pdfsToCheck[i]))

\* the loop of check_conversions
conversionStatus(d, pdfsToCheck) ==
    [i \in 1..Len(pdfsToCheck) |->
        [pdf_path |-> pdfsToCheck[i],
         has_markdown |-> checkMdExists(d, pdfsToCheck[i]),
         needs_conversion |-> ~checkMdExists(d, pdfsToCheck[i])]]

\* analyzeMarkdownContent: the categories and their keywords, in the order of the code
AnalysisCategories ==
    <<
      [category |-> <<"R", "e", "s", "e", "a", "r", "c", "h">>,
       keywords |->
           <<<<"a", "n", "a", "l", "y", "s", "i", "s">>,
             <<"r", "e", "s", "e", "a", "r", "c", "h">>,
             <<"s", "t", "u", "d", "y">>,
             <<"i", "n", "v", "e", "s", "t", "i", "g", "a", "t", "i", "o", "n">>,
             <<"f", "i", "n", "d", "i", "n", "g", "s">>,
             <<"m", "e", "t", "h", "o", "d", "o", "l", "o", "g", "y">>>>],
      [category |-> <<"P", "l", "a", "n", "n", "i", "n", "g">>,
       keywords |->
           <<<<"p", "l", "a", "n">>,
             <<"s", "t", "r", "a", "t", "e", "g", "y">>,
             <<"r", "o", "a", "d", "m", "a", "p">>,
             <<"t", "i", "m", "e", "l", "i", "n", "e">>,
             <<"g", "o", "a", "l", "s">>,
             <<"o", "b", "j", "e", "c", "t", "i", "v", "e", "s">>,
             <<"d", "i", "s", "c", "u", "s", "s", "i", "o", "n">>>>],
      [category |-> <<"D", "o", "c", "u", "m", "e", "n", "t", "a", "t", "i", "o", "n">>,
       keywords |->
           <<<<"d", "o", "c", "u", "m", "e", "n", "t", "a", "t", "i", "o", "n">>,
             <<"g", "u", "i", "d", "e">>,
             <<"m", "a", "n", "u", "a", "l">>,
             <<"i", "n", "s", "t", "r", "u", "c", "t", "i", "o", "n", "s">>,
             <<"t", "u", "t", "o", "r", "i", "a", "l">>,
             <<"r", "e", "f", "e", "r", "e", "n", "c", "e">>>>],
      [category |-> <<"T", "e", "c", "h", "n", "i", "c", "a", "l">>,
       keywords |->
           <<<<"t", "e", "c", "h", "n", "i", "c", "a", "l">>,
             <<"i", "m", "p", "l", "e", "m", "e", "n", "t", "a", "t", "i", "o", "n">>,
             <<"a", "r", "c", "h", "i", "t", "e", "c", "t", "u", "r", "e">>,
             <<"d", "e", "s", "i", "g", "n">>,
             <<"s", "p", "e", "c", "i", "f", "i", "c", "a", "t", "i", "o", "n">>,
             <<"a", "p", "i">>>>],
      [category |-> <<"B", "u", "s", "i", "n", "e", "s", "s">>,
       keywords |->
           <<<<"b", "u", "s", "i", "n", "e", "s", "s">>,
             <<"m", "a", "r", "k", "e", "t">>,
             <<"c", "o", "m", "p", "e", "t", "i", "t", "i", "v", "e">>,
             <<"r", "e", "v", "e", "n", "u", "e">>,
             <<"c", "o", "m", "m", "e", "r", "c", "i", "a", "l">>,
             <<"s", "t", "r", "a", "t", "e", "g", "y">>>>] >>

General == <<"G", "e", "n", "e", "r", "a", "l">>

\* content.slice(0, 2000).toLowerCase()
FirstPart(content) == ToLowerCase(SubSeq(content, 1, Min(2000, Len(content))))

\* the keywords of the k-th category that the text includes
FoundKeywords(firstPart, k) ==
    SelectSeq(AnalysisCategories[k].keywords, LAMBDA keyword : Includes(firstPart, keyword))

Score(firstPart, k) == Len(FoundKeywords(firstPart, k))

BestScore(firstPart) ==
    CHOOSE best \in {Score(firstPart, k) : k \in 1..Len(AnalysisCategories)} :
        \A k \in 1..Len(AnalysisCategories) : Score(firstPart, k) <= best

\* a later category replaces the best one only with a greater score
BestCategory(firstPart) ==
    IF BestScore(firstPart) = 0 THEN General
    ELSE AnalysisCategories[CHOOSE k \in 1..Len(AnalysisCategories) :
                                /\ Score(firstPart, k) = BestScore(firstPart)
                                /\ \A j \in 1..(k - 1) :
                                       Score(firstPart, j) < BestScore(firstPart)].category

RECURSIVE AllFoundKeywords(_, _)
AllFoundKeywords(firstPart, k) ==
    IF k > Len(AnalysisCategories) THEN <<>>
    ELSE FoundKeywords(firstPart, k) \o AllFoundKeywords(firstPart, k + 1)

\* analyzeMarkdownContent(mdPath), with the path of the file
analyzeMarkdownContent(d, mdPath) ==
    [file_path  |-> mdPath,
     category   |-> BestCategory(FirstPart(d.files[mdPath].chars)),
     confidence |-> FMin(Frac(BestScore(FirstPart(d.files[mdPath].chars)), 3), Whole(1)),
     keywords   |-> AllFoundKeywords(FirstPart(d.files[mdPath].chars), 1)]

\* findMdFiles(dir): the files with the extension .md in the directory and below
findMdFiles(d, dir) ==
    {path \in DOMAIN d.files :
        Under(dir, path) /\ ToLowerCase(Extname(Basename(path))) = ExtMd}

\* the step of the reduce: acc[category].push(file_path)
AddToCategory(acc, category, file_path) ==
    IF \E k \in 1..Len(acc) : acc[k].category = category
    THEN [k \in 1..Len(acc) |->
             IF acc[k].category = category
             THEN [acc[k] EXCEPT !.files = Append(@, file_path)] ELSE acc[k]]
    ELSE Append(acc, [category |-> category, files |-> <<file_path>>])

\* analyses.reduce: the files of each category, the categories in the order
\* in which they are met
RECURSIVE Categorize(_, _, _)
Categorize(analyses, i, acc) ==
    IF i > Len(analyses) THEN acc
    ELSE Categorize(analyses, i + 1,
                    AddToCategory(acc, analyses[i].category, analyses[i].file_path))

\* full_workflow, Step 3: the PDFs that needed a conversion in Step 2 are converted
RECURSIVE WorkflowConvertLoop(_, _, _, _, _)
WorkflowConvertLoop(e, rs, status, i, st) ==
    IF i > Len(status) THEN st
    ELSE WorkflowConvertLoop(e, rs, status, i + 1,
             IF status[i].needs_conversion
             THEN Attempted(st, status[i].pdf_path,
                            convertPdfToMd(e, rs[i], st.disk, status[i].pdf_path))
             ELSE st)

\* organize_structure: the directories of one category
CategoryDirs(d, categoryPath, create_pdf_md_subfolders) ==
    IF create_pdf_md_subfolders
    THEN Mkdir(Mkdir(Mkdir(d, categoryPath), PathJoin(categoryPath, <<"P", "D", "F", "s">>)),
               PathJoin(categoryPath, <<"M", "D", "s">>))
    ELSE Mkdir(d, categoryPath)

\* organize_structure: the loop over Object.entries(categories) from the k-th on
RECURSIVE OrganizeLoop(_, _, _, _, _)
OrganizeLoop(directory_path, categories, create_pdf_md_subfolders, k, st) ==
    IF k > Len(categories) THEN st
    ELSE OrganizeLoop(directory_path, categories, create_pdf_md_subfolders, k + 1,
             [disk |-> CategoryDirs(st.disk, PathJoin(directory_path, categories[k].name),
                                    create_pdf_md_subfolders),
              results |-> Append(st.results,
                                 [category |-> categories[k].name,
                                  path |-> PathJoin(directory_path, categories[k].name),
                                  files_to_organize |-> Len(categories[k].files),
                                  subfolders_created |-> create_pdf_md_subfolders])])

(***************************************************************************)
(* The documents of the model: a directory with PDFs whose names hold a    *)
(* space, a hyphen and an upper-case extension, one of them in a           *)
(* subdirectory, and Markdown files beside them.                            *)
(***************************************************************************)
DocsDir == << <<"d">> >>

SubDir == PathJoin(DocsDir, <<"s">>)

PdfSpace == PathJoin(DocsDir, <<"a", " ", "b", ".", "p", "d", "f">>)

PdfHyphen == PathJoin(DocsDir, <<"a", "-", "b", ".", "p", "d", "f">>)

PdfUpper == PathJoin(SubDir, <<"c", ".", "P", "D", "F">>)

MdUnderscore == PathJoin(DocsDir, <<"a", "_", "b", ".", "m", "d">>)

MdHyphen == PathJoin(DocsDir, <<"a", "-", "b", ".", "m", "d">>)

PdfContent == StrVal(<<"%", "P", "D", "F">>)

\* a text that holds a keyword of the analysis
PlanText == <<"O", "u", "r", " ", "P", "l", "a", "n">>

Research == <<"R", "e", "s", "e", "a", "r", "c", "h">>

Planning == <<"P", "l", "a", "n", "n", "i", "n", "g">>

\* the argument categories of organize_structure, as Object.entries gives it
CategoryMaps ==
    {<<>>,
     <<[name |-> Research, files |-> <<>>]>>,
     <<[name |-> Research, files |-> <<PdfSpace>>]>>,
     <<[name |-> Research, files |-> <<PdfSpace, MdUnderscore>>],
       [name |-> Planning, files |-> <<MdHyphen>>]>>}

\* a disk with the given PDFs and Markdown files
DiskOf(pdfs, mds) ==
    [files |-> [path \in pdfs \cup mds |->
                   IF path \in pdfs THEN PdfContent
                   ELSE IF path = MdHyphen THEN StrVal(PlanText)
                   ELSE StrVal(RawProse)],
     dirs  |-> {DocsDir, SubDir}]

Disks == {DiskOf(pdfs, mds) : pdfs \in SUBSET {PdfSpace, PdfHyphen, PdfUpper},
                              mds \in SUBSET {MdHyphen}}

\* the argument pdf_files: left out, or a list
Omitted == [given |-> FALSE, list |-> <<>>]

Listed(list) == [given |-> TRUE, list |-> list]

PdfLists == {Listed(<<PdfSpace>>), Listed(<<PdfHyphen, PdfSpace>>),
             Listed(<<PdfUpper, PdfUpper>>)}

\* the calls of the tools in a run
MaxTurns == 2

InitOrganize ==
    /\ ReformatIdle
    /\ env = [marker |-> TRUE, pymupdf4llm |-> TRUE, pdfExists |-> TRUE]
    /\ ConvertIdle
    /\ CallsIdle
    /\ disk \in Disks
    /\ report = NoReport
    /\ previous = NoReport
    /\ turns = 0

\* the state after the call of a tool
Answers(d, r) ==
    /\ disk' = d
    /\ report' = r
    /\ previous' = report

\* pdf_files || await findPdfFiles(directory_path)
PdfsToCheck(pdf_files) ==
    IF pdf_files.given THEN {pdf_files.list} ELSE Orders(findPdfFiles(disk, DocsDir, TRUE))

ConvertMissingDone(pdf_files, st) ==
    Answers(st.disk,
            [tool |-> "convert_missing", pdf_files |-> pdf_files,
             examined |-> st.examined,
             conversions_attempted |-> Len(st.conversions),
             successful_conversions |->
                 Cardinality({i \in 1..Len(st.conversions) : st.conversions[i].success}),
             failed_conversions |->
                 Cardinality({i \in 1..Len(st.conversions) : ~st.conversions[i].success}),
             results |-> st.conversions])

\* the handler of document_organizer__convert_missing
ConvertMissing ==
    /\ turns < MaxTurns
    /\ turns' = turns + 1
    /\ UNCHANGED <<reformatVars, convertVars, callVars>>
    /\ \E pdf_files \in PdfLists \cup {Omitted} :
        \E pdfsToCheck \in PdfsToCheck(pdf_files) :
        \E rs \in [1..Len(pdfsToCheck) -> BatchRuns] :
            ConvertMissingDone(pdf_files,
                ConvertMissingLoop(env, rs, pdfsToCheck, 1,
                                   [disk |-> disk, examined |-> <<>>, conversions |-> <<>>]))

CheckConversionsDone(pdf_files, status) ==
    Answers(disk,
            [tool |-> "check_conversions", pdf_files |-> pdf_files,
             total_pdfs |-> Len(status),
             already_converted |->
                 Cardinality({i \in 1..Len(status) : status[i].has_markdown}),
             needs_conversion |->
                 Cardinality({i \in 1..Len(status) : status[i].needs_conversion}),
             conversion_status |-> status])

\* the handler of document_organizer__check_conversions
CheckConversions ==
    /\ turns < MaxTurns
    /\ turns' = turns + 1
    /\ UNCHANGED <<reformatVars, convertVars, callVars>>
    /\ \E pdf_files \in PdfLists \cup {Omitted} :
        \E pdfsToCheck \in PdfsToCheck(pdf_files) :
            CheckConversionsDone(pdf_files, conversionStatus(disk, pdfsToCheck))

\* the response of full_workflow
FullWorkflowDone(analyze_content, pdfFiles, status, st, analyses) ==
    Answers(st.disk,
            [tool |-> "full_workflow", analyze_content |-> analyze_content,
             workflow_completed |-> TRUE,
             steps |->
                 <<[step |-> "discover", found_pdfs |-> Len(pdfFiles)],
                   [step |-> "check_conversions",
                    needs_conversion |->
                        Cardinality({i \in 1..Len(status) : status[i].needs_conversion})],
                   [step |-> "convert_missing",
                    conversions_attempted |-> Len(st.conversions),
                    successful |->
                        Cardinality({i \in 1..Len(st.conversions) :
                                        st.conversions[i].success})]>>
                 \o IF analyze_content
                    THEN <<[step |-> "analyze_content", files_analyzed |-> Len(analyses),
                            categories_identified |-> Len(Categorize(analyses, 1, <<>>))]>>
                    ELSE <<>>,
             final_categorization |-> Categorize(analyses, 1, <<>>),
             results |-> st.conversions])

\* full_workflow, Step 4: the Markdown files are analyzed if that is asked for
FullWorkflowAnalyze(analyze_content, pdfFiles, status, st) ==
    IF analyze_content
    THEN \E allMdFiles \in Orders(findMdFiles(st.disk, DocsDir)) :
             FullWorkflowDone(analyze_content, pdfFiles, status, st,
                              [i \in 1..Len(allMdFiles) |->
                                  analyzeMarkdownContent(st.disk, allMdFiles[i])])
    ELSE FullWorkflowDone(analyze_content, pdfFiles, status, st, <<>>)

\* the handler of document_organizer__full_workflow
FullWorkflow ==
    /\ turns < MaxTurns
    /\ turns' = turns + 1
    /\ UNCHANGED <<reformatVars, convertVars, callVars>>
    /\ \E analyze_content \in BOOLEAN :
        \E pdfFiles \in Orders(findPdfFiles(disk, DocsDir, TRUE)) :
        \E rs \in [1..Len(pdfFiles) -> BatchRuns] :
            FullWorkflowAnalyze(analyze_content, pdfFiles, conversionStatus(disk, pdfFiles),
                WorkflowConvertLoop(env, rs, conversionStatus(disk, pdfFiles), 1,
                                    [disk |-> disk, examined |-> <<>>, conversions |-> <<>>]))

OrganizeStructureDone(categories, create_pdf_md_subfolders, st) ==
    Answers(st.disk,
            [tool |-> "organize_structure", categories |-> categories,
             create_pdf_md_subfolders |-> create_pdf_md_subfolders,
             categories_created |-> Len(st.results),
             organization_results |-> st.results])

\* the handler of document_organizer__organize_structure
OrganizeStructure ==
    /\ turns < MaxTurns
    /\ turns' = turns + 1
    /\ UNCHANGED <<reformatVars, convertVars, callVars>>
    /\ \E categories \in CategoryMaps, create_pdf_md_subfolders \in BOOLEAN :
           OrganizeStructureDone(categories, create_pdf_md_subfolders,
               OrganizeLoop(DocsDir, categories, create_pdf_md_subfolders, 1,
                            [disk |-> disk, results |-> <<>>]))

\* the tools that convert and audit
NextOrganize == ConvertMissing \/ CheckConversions

\* the tools that run the pipeline and build the folders
NextWorkflow == FullWorkflow \/ OrganizeStructure

SpecWorkflow == InitOrganize /\ [][NextWorkflow]_vars

SpecOrganize == InitOrganize /\ [][NextOrganize]_vars

(***************************************************************************)
(* The plans of the Universal Project Documentation Standard: archivePlan  *)
(* and validateDocumentationStructure.  The paths are absolute, as          *)
(* validatePath returns them.                                               *)
(***************************************************************************)
LitStatus == <<"*", "*", "S", "t", "a", "t", "u", "s", ":", "*", "*">>

LitActive == <<"A", "C", "T", "I", "V", "E">>

LitLastUpdated ==
    <<"*", "*", "L", "a", "s", "t", " ", "U", "p", "d", "a", "t", "e", "d", ":", "*",
      "*">>

\* the header that validateDocumentationStructure looks for
StatusActive ==
    <<"*", "*", "S", "t", "a", "t", "u", "s", ":", "*", "*", " ", "A", "C", "T", "I",
      "V", "E">>

StatusArchived ==
    <<"*", "*", "S", "t", "a", "t", "u", "s", ":", "*", "*", " ", "A", "R", "C", "H",
      "I", "V", "E", "D">>

StatusSuperseded ==
    <<"*", "*", "S", "t", "a", "t", "u", "s", ":", "*", "*", " ", "S", "U", "P", "E",
      "R", "S", "E", "D", "E", "D">>

Archived == <<"A", "R", "C", "H", "I", "V", "E", "D">>

Superseded == <<"S", "U", "P", "E", "R", "S", "E", "D", "E", "D">>

\* new Date().toISOString().split('T')[0]
Today == <<"2", "0", "2", "6", "-", "1", "1", "-", "0", "3">>

ArchivalTitle ==
    <<"\n", "\n", "-", "-", "-", "\n", "#", "#", " ", "A", "r", "c", "h", "i", "v",
      "a", "l", " ", "I", "n", "f", "o", "r", "m", "a", "t", "i", "o", "n", "\n", "*",
      "*", "A", "r", "c", "h", "i", "v", "e", "d", " ", "D", "a", "t", "e", ":", "*",
      "*", " ">>

ArchivalReason ==
    <<" ", " ", "\n", "*", "*", "R", "e", "a", "s", "o", "n", ":", "*", "*", " ">>

ArchivalEnd == <<" ", " ", "\n">>

NameDocs == <<"d", "o", "c", "s">>

NamePlans == <<"p", "l", "a", "n", "s">>

NameProgress == <<"p", "r", "o", "g", "r", "e", "s", "s">>

NameArchived == <<"a", "r", "c", "h", "i", "v", "e", "d">>

NameSuperseded == <<"s", "u", "p", "e", "r", "s", "e", "d", "e", "d">>

NameActivePlan == <<"A", "C", "T", "I", "V", "E", "_", "P", "L", "A", "N", ".", "m", "d">>

NameCurrentStatus ==
    <<"C", "U", "R", "R", "E", "N", "T", "_", "S", "T", "A", "T", "U", "S", ".", "m",
      "d">>

NameClaudeInstructions ==
    <<".", "c", "l", "a", "u", "d", "e", "-", "i", "n", "s", "t", "r", "u", "c", "t",
      "i", "o", "n", "s", ".", "m", "d">>

\* /\*\*Status:\*\*\s+ACTIVE/ at position p: the position after the match, or 0
MatchStatus(s, p) ==
    IF /\ At(s, p, LitStatus)
       /\ SkipSpaces(s, p + Len(LitStatus)) > p + Len(LitStatus)
       /\ At(s, SkipSpaces(s, p + Len(LitStatus)), LitActive)
    THEN SkipSpaces(s, p + Len(LitStatus)) + Len(LitActive)
    ELSE 0

\* /\*\*Last Updated:\*\*[^\n]*/ at position p
MatchLastUpdated(s, p) ==
    IF At(s, p, LitLastUpdated) THEN IndexFrom(s, NL, p + Len(LitLastUpdated)) ELSE 0

\* the first position >= p of s where the status header matches
NextStatus(s, p) ==
    CHOOSE q \in p..(Len(s) + 1) :
        /\ (q > Len(s) \/ MatchStatus(s, q) > 0)
        /\ \A r \in p..(q - 1) : MatchStatus(s, r) = 0

NextLastUpdated(s, p) ==
    CHOOSE q \in p..(Len(s) + 1) :
        /\ (q > Len(s) \/ MatchLastUpdated(s, q) > 0)
        /\ \A r \in p..(q - 1) : MatchLastUpdated(s, r) = 0

RECURSIVE ReplaceStatusFrom(_, _, _)

\* q is the position of the first status header from p on
ReplaceStatusNext(s, p, q, newStatus) ==
    IF q > Len(s) THEN Sub(s, p, q)
    ELSE Sub(s, p, q) \o LitStatus \o <<" ">> \o newStatus
             \o ReplaceStatusFrom(s, MatchStatus(s, q), newStatus)

\* content.replace(/\*\*Status:\*\*\s+ACTIVE/g, `**Status:** ${newStatus}`)
ReplaceStatusFrom(s, p, newStatus) == ReplaceStatusNext(s, p, NextStatus(s, p), newStatus)

RECURSIVE ReplaceLastUpdatedFrom(_, _, _)

ReplaceLastUpdatedNext(s, p, q, currentDate) ==
    IF q > Len(s) THEN Sub(s, p, q)
    ELSE Sub(s, p, q) \o LitLastUpdated \o <<" ">> \o currentDate
             \o ReplaceLastUpdatedFrom(s, MatchLastUpdated(s, q), currentDate)

\* .replace(/\*\*Last Updated:\*\*[^\n]*/g, `**Last Updated:** ${currentDate}`)
ReplaceLastUpdatedFrom(s, p, currentDate) ==
    ReplaceLastUpdatedNext(s, p, NextLastUpdated(s, p), currentDate)

\* archivePlan: updatedContent
updatedContent(content, newStatus, currentDate) ==
    ReplaceLastUpdatedFrom(ReplaceStatusFrom(content, 1, newStatus), 1, currentDate)

\* archivePlan: the section appended to the plan
ArchivalInformation(reason, currentDate) ==
    ArchivalTitle \o currentDate \o ArchivalReason \o reason \o ArchivalEnd

\* archivePlan: archivedContent
archivedContent(content, reason, newStatus, currentDate) ==
    updatedContent(content, newStatus, currentDate) \o ArchivalInformation(reason, currentDate)

\* planPath.includes('/docs/')
IncludesDocs(planPath) == \E i \in 1..(Len(planPath) - 1) : planPath[i] = NameDocs

\* archivePlan: projectRoot
projectRoot(planPath) ==
    IF IncludesDocs(planPath)
    THEN SubSeq(planPath, 1,
                (CHOOSE i \in 1..(Len(planPath) - 1) :
                     planPath[i] = NameDocs /\ \A j \in 1..(i - 1) : planPath[j] # NameDocs) - 1)
    ELSE Dirname(planPath)

\* archivePlan: archiveDir
archiveDir(planPath, newStatus) ==
    projectRoot(planPath) \o <<NameDocs, NamePlans, ToLowerCase(newStatus)>>

\* archivePlan: archivePath
archivePath(planPath, newStatus) == PathJoin(archiveDir(planPath, newStatus), Basename(planPath))

\* archivePlan: the original is removed unless it is ACTIVE_PLAN.md
RemoveOriginal(d, planPath) ==
    IF Basename(planPath) # NameActivePlan THEN Unlink(d, planPath) ELSE d

\* archivePlan(planPath, reason, newStatus) on a disk that holds the plan
archivePlan(d, planPath, reason, newStatus) ==
    RemoveOriginal(WriteFile(Mkdir(d, archiveDir(planPath, newStatus)),
                             archivePath(planPath, newStatus),
                             StrVal(archivedContent(d.files[planPath].chars, reason,
                                                    newStatus, Today))),
                   planPath)

requiredFiles == <<NameCurrentStatus, NameActivePlan, NameClaudeInstructions>>

requiredDirs ==
    << <<NameDocs>>, <<NameDocs, NamePlans>>, <<NameDocs, NamePlans, NameArchived>>,
       <<NameDocs, NamePlans, NameSuperseded>>, <<NameDocs, NameProgress>> >>

\* validateDocumentationStructure: the required files that cannot be accessed
missingFiles(d, projectPath) ==
    SelectSeq(requiredFiles, LAMBDA file : ~Exists(d, PathJoin(projectPath, file)))

\* validateDocumentationStructure: the issues of the content of ACTIVE_PLAN.md
PlanIssues(d, filePath) ==
    IF ~IsFile(d, filePath) THEN <<>>
    ELSE (IF ~Includes(d.files[filePath].chars, LitStatus)
          THEN <<[issue |-> "missing required status header", paths |-> {filePath}]>>
          ELSE <<>>)
         \o (IF \/ Includes(d.files[filePath].chars, StatusArchived)
                \/ Includes(d.files[filePath].chars, StatusSuperseded)
             THEN <<[issue |-> "has non-ACTIVE status", paths |-> {filePath}]>>
             ELSE <<>>)

\* validateDocumentationStructure: a required directory that is a file
DirIssues(d, projectPath) ==
    SelectSeq([k \in 1..Len(requiredDirs) |->
                  [issue |-> "exists but is not a directory",
                   paths |-> {projectPath \o requiredDirs[k]}]],
              LAMBDA i : \E path \in i.paths : IsFile(d, path))

\* validateDocumentationStructure: the required directories that do not exist
suggestions(d, projectPath) ==
    SelectSeq([k \in 1..Len(requiredDirs) |-> projectPath \o requiredDirs[k]],
              LAMBDA dir : ~Exists(d, dir))

\* findActivePlans(docsPath): the files below docs whose name ends with .md and
\* whose content includes the header
activePlans(d, docsPath) ==
    {path \in DOMAIN d.files :
        /\ Under(docsPath, path)
        /\ EndsWith(Basename(path), ExtMd)
        /\ Includes(d.files[path].chars, StatusActive)}

MultipleIssues(d, projectPath) ==
    IF Cardinality(activePlans(d, PathJoin(projectPath, NameDocs))) > 1
    THEN <<[issue |-> "Multiple ACTIVE plans found",
            paths |-> activePlans(d, PathJoin(projectPath, NameDocs))]>>
    ELSE <<>>

\* validateDocumentationStructure: the issues, in the order of the checks
issues(d, projectPath) ==
    PlanIssues(d, PathJoin(projectPath, NameActivePlan)) \o DirIssues(d, projectPath)
        \o MultipleIssues(d, projectPath)

validateDocumentationStructure(d, projectPath) ==
    [valid |-> Len(missingFiles(d, projectPath)) = 0 /\ Len(issues(d, projectPath)) = 0,
     missing_files |-> missingFiles(d, projectPath),
     issues |-> issues(d, projectPath),
     suggestions |-> suggestions(d, projectPath)]

\* the project of the model and the texts of its plans
Project == << <<"p">> >>

NameNext == <<"n", "e", "x", "t", ".", "m", "d">>

NameOld == <<"o", "l", "d", ".", "m", "d">>

TextActive ==
    <<"#", " ", "P", "l", "a", "n", "\n", "*", "*", "S", "t", "a", "t", "u", "s", ":",
      "*", "*", " ", "A", "C", "T", "I", "V", "E", " ", " ", "\n">>

TextTwice ==
    <<"*", "*", "S", "t", "a", "t", "u", "s", ":", "*", "*", " ", "A", "C", "T", "I",
      "V", "E", "\n", "*", "*", "L", "a", "s", "t", " ", "U", "p", "d", "a", "t", "e",
      "d", ":", "*", "*", " ", "1", "\n", "*", "*", "S", "t", "a", "t", "u", "s", ":",
      "*", "*", " ", " ", "A", "C", "T", "I", "V", "E">>

TextArchived ==
    <<"*", "*", "S", "t", "a", "t", "u", "s", ":", "*", "*", " ", "A", "R", "C", "H",
      "I", "V", "E", "D">>

TextPlain == <<"#", " ", "P", "l", "a", "n">>

Reason == <<"d", "o", "n", "e">>

RootPlan == PathJoin(Project, NameActivePlan)

NextPlan == Project \o <<NameDocs, NamePlans, NameNext>>

OldPlan == Project \o <<NameDocs, NamePlans, NameArchived, NameOld>>

\* the files of a project: the texts of the three plans (<<>>: no such file),
\* and whether CURRENT_STATUS.md exists
ProjectFiles(root, next, old, status) ==
    LET paths == (IF root # <<>> THEN {RootPlan} ELSE {})
                     \cup (IF next # <<>> THEN {NextPlan} ELSE {})
                     \cup (IF old # <<>> THEN {OldPlan} ELSE {})
                     \cup (IF status THEN {PathJoin(Project, NameCurrentStatus)} ELSE {})
                     \cup {PathJoin(Project, NameClaudeInstructions)}
    IN  [path \in paths |->
            StrVal(IF path = RootPlan THEN root
                   ELSE IF path = NextPlan THEN next
                   ELSE IF path = OldPlan THEN old
                   ELSE TextPlain)]

\* the directories of a project, with docs/progress or without it
ProjectDirs(progress) ==
    {Project} \cup {Project \o requiredDirs[k] : k \in 1..4}
        \cup (IF progress THEN {Project \o requiredDirs[5]} ELSE {})

ProjectDisks ==
    {[files |-> ProjectFiles(root, next, old, status), dirs |-> ProjectDirs(progress)] :
        root \in {<<>>, TextActive, TextArchived, TextPlain},
        next \in {<<>>, TextActive, TextTwice},
        old \in {<<>>, TextActive, TextArchived},
        status \in BOOLEAN, progress \in BOOLEAN}

\* the argument new_status, ARCHIVED when it is left out
ArchivePlanArgsSchema(args) ==
    [args EXCEPT !.new_status = IF @ = <<>> THEN Archived ELSE @]

ArchivePlanArgs ==
    [plan_path : {RootPlan, NextPlan, OldPlan}, reason : {Reason},
     new_status : {<<>>, Archived, Superseded}]

InitDocs ==
    /\ ReformatIdle
    /\ env = [marker |-> TRUE, pymupdf4llm |-> TRUE, pdfExists |-> TRUE]
    /\ ConvertIdle
    /\ CallsIdle
    /\ disk \in ProjectDisks
    /\ report = NoReport
    /\ previous = NoReport
    /\ turns = 0

\* archive_plan: the response, or the error when the plan cannot be read
ArchivePlanParsed(parsed) ==
    IF IsFile(disk, parsed.plan_path)
    THEN Answers(archivePlan(disk, parsed.plan_path, parsed.reason, parsed.new_status),
                 [tool |-> "archive_plan", isError |-> FALSE, plan_archived |-> TRUE,
                  original_path |-> parsed.plan_path, status |-> parsed.new_status,
                  reason |-> parsed.reason, archived_date |-> Today,
                  content |-> disk.files[parsed.plan_path].chars])
    ELSE Answers(disk,
                 [tool |-> "archive_plan", isError |-> TRUE, plan_archived |-> FALSE,
                  text |-> "Failed to archive plan"])

\* the handler of document_organizer__archive_plan
ArchivePlan ==
    /\ turns < MaxTurns
    /\ turns' = turns + 1
    /\ UNCHANGED <<reformatVars, convertVars, callVars>>
    /\ \E args \in ArchivePlanArgs : ArchivePlanParsed(ArchivePlanArgsSchema(args))

ValidateDocStructureDone(validation) ==
    Answers(disk,
            [tool |-> "validate_doc_structure", project_path |-> Project,
             compliant |-> validation.valid,
             missing_files |-> validation.missing_files,
             issues |-> validation.issues,
             suggestions |-> validation.suggestions])

\* the handler of document_organizer__validate_doc_structure
ValidateDocStructure ==
    /\ turns < MaxTurns
    /\ turns' = turns + 1
    /\ UNCHANGED <<reformatVars, convertVars, callVars>>
    /\ ValidateDocStructureDone(validateDocumentationStructure(disk, Project))

NextDocs == ArchivePlan \/ ValidateDocStructure

SpecDocs == InitDocs /\ [][NextDocs]_vars

(***************************************************************************)
(* Vocabulary of the properties.                                            *)
(***************************************************************************)
\* the pipeline has run on the input of the current call
Ran == pc = "returned" /\ lines # <<>>

\* at least two pipe characters, said with positions
TwoPipes(line) ==
    \E i, j \in 1..Len(line) : i < j /\ line[i] = "|" /\ line[j] = "|"

Pipes(line) == {p \in 1..Len(line) : line[p] = "|"}

\* made up of dashes, pipes and white space only
DashesOnly(line) ==
    \A k \in 1..Len(line) : line[k] = "-" \/ line[k] = "|" \/ IsSpace(line[k])

TableEntries(l) == SelectSeq(l, LAMBDA e : e.kind = "Table")

RenderedEntries(l) == {k \in 1..Len(l) : l[k].rendered}

\* the raw input lines of the log entry e
RawLines(e) == [k \in 1..(e.end - e.start) |-> lines[e.start + k]]

\* the cells of an output line "| c1 | c2 |": the text between the pipes
\* without the one space that the renderer puts on each side
OutCells(line) ==
    LET pieces == Split(line, "|")
    IN  [c \in 1..(Len(pieces) - 2) |-> Sub(pieces[c + 1], 2, Len(pieces[c + 1]))]

\* the output line of row r of a rendered entry (the separator is line 2)
RowOut(e, r) == e.out[IF r = 1 THEN 1 ELSE r + 1]

CellOf(row, c) == IF c <= Len(row) THEN row[c] ELSE <<>>

EndsWithEllipsis(cell) ==
    Len(cell) >= 3 /\ Sub(cell, Len(cell) - 2, Len(cell) + 1) = Ellipsis

\* some cell of entry e is longer than the width of its column
Truncates(e) ==
    \E r \in 1..Len(e.rows) : \E c \in 1..Len(e.columnWidths) :
        Len(CellOf(e.rows[r], c)) * e.columnWidths[c].den > e.columnWidths[c].num

(***************************************************************************)
(* C1: in every rendered table region every output line, data rows and     *)
(* the separator alike, has exactly maxColumns cells, and the cell of      *)
(* column c is exactly ColumnPlan[c] characters long, so that all lines of *)
(* a region have the same length.  A width that is not a whole number is   *)
(* taken at its integer part, the number of characters that padEnd and     *)
(* repeat make of it.                                                       *)
(***************************************************************************)
C1_RowsRectangular ==
    Ran => \A k \in RenderedEntries(log) :
        \A j \in 1..Len(log[k].out) :
            /\ Len(OutCells(log[k].out[j])) = MaxColumns(log[k].rows)
            /\ \A c \in 1..Len(log[k].columnWidths) :
                   Len(OutCells(log[k].out[j])[c]) = Trunc(log[k].columnWidths[c])
            /\ Len(log[k].out[j]) = Len(log[k].out[1])

(***************************************************************************)
(* C2: a cell longer than the width of its column is rendered in exactly   *)
(* width characters: text of at most width - 3 characters, then "...",     *)
(* then the right padding if any.  A width that is not a whole number is   *)
(* taken at its integer part.                                               *)
(***************************************************************************)
C2_TruncatedCellFits ==
    Ran => \A k \in RenderedEntries(log) :
        \A r \in 1..Len(log[k].rows) : \A c \in 1..Len(log[k].columnWidths) :
            LET cell  == CellOf(log[k].rows[r], c)
                width == log[k].columnWidths[c]
                shown == OutCells(RowOut(log[k], r))[c]
            IN  Len(cell) * width.den > width.num =>
                    /\ EndsWithEllipsis(Trim(shown))
                    /\ Len(shown) = Trunc(width)
                    /\ Len(Trim(shown)) - 3 <= Trunc(width) - 3

(***************************************************************************)
(* C3: the regions walked by the assembler, the table regions and the      *)
(* prose gaps between them, are contiguous, do not overlap and cover       *)
(* exactly the line indices [0, lineCount): every line is in one region.   *)
(***************************************************************************)
C3_RegionsCoverLines ==
    Ran =>
        /\ Len(log) >= 1
        /\ log[1].start = 0
        /\ log[Len(log)].end = Len(lines)
        /\ \A k \in 1..Len(log) : log[k].start < log[k].end
        /\ \A k \in 1..(Len(log) - 1) : log[k].end = log[k + 1].start
        /\ \A i \in 0..(Len(lines) - 1) :
               Cardinality({k \in 1..Len(log) : log[k].start <= i /\ i < log[k].end}) = 1
        /\ [k \in 1..Len(TableEntries(log)) |->
               <<TableEntries(log)[k].start, TableEntries(log)[k].end - 1>>] = tableRegions

C3_Witness ==
    /\ Ran
    /\ Len(log) = 3
    /\ log[1].kind = "Table"
    /\ log[2].kind = "Prose"
    /\ log[3].kind = "Table"

(***************************************************************************)
(* C4: every table region is a maximal run of table lines, of length at    *)
(* least 1: its lines are table lines, its neighbours are not, every table *)
(* line lies in a region, a run that reaches the last line is closed       *)
(* there, and a document without table lines has no table region and is    *)
(* cleaned as prose throughout.                                             *)
(***************************************************************************)
C4_TableRegionsAreMaximalRuns ==
    Ran =>
        /\ \A k \in 1..Len(tableRegions) :
               LET tableStart == tableRegions[k][1]
                   tableEnd   == tableRegions[k][2]
               IN  /\ 0 <= tableStart
                   /\ tableStart <= tableEnd
                   /\ tableEnd <= Len(lines) - 1
                   /\ \A i \in tableStart..tableEnd : TwoPipes(lines[i + 1])
                   /\ tableStart > 0 => ~TwoPipes(lines[tableStart])
                   /\ tableEnd < Len(lines) - 1 => ~TwoPipes(lines[tableEnd + 2])
        /\ \A i \in 0..(Len(lines) - 1) :
               TwoPipes(lines[i + 1]) =>
                   \E k \in 1..Len(tableRegions) :
                       tableRegions[k][1] <= i /\ i <= tableRegions[k][2]
        /\ TwoPipes(lines[Len(lines)]) =>
               \E k \in 1..Len(tableRegions) : tableRegions[k][2] = Len(lines) - 1
        /\ (\A i \in 1..Len(lines) : ~TwoPipes(lines[i])) =>
               /\ tableRegions = <<>>
               /\ \A k \in 1..Len(log) : log[k].kind = "Prose"
               /\ cleanedLines = [i \in 1..Len(lines) |-> cleanRegularLine(lines[i])]

C4_Witness ==
    /\ Ran
    /\ Len(lines) = 3
    /\ tableRegions = <<<<1, 2>>>>

(***************************************************************************)
(* C5: a line is classified as a table line exactly when it holds at least *)
(* two pipe characters: never with none or one, always with two or more.   *)
(***************************************************************************)
C5_ClassifierCountsPipes ==
    Ran => \A i \in 1..Len(lines) :
        /\ IsTableLine(lines[i]) <=> Cardinality(Pipes(lines[i])) >= 2
        /\ Cardinality(Pipes(lines[i])) <= 1 =>
               \A k \in 1..Len(log) :
                   (log[k].start < i /\ i <= log[k].end) => log[k].kind = "Prose"
        /\ Cardinality(Pipes(lines[i])) >= 2 =>
               \A k \in 1..Len(log) :
                   (log[k].start < i /\ i <= log[k].end) => log[k].kind = "Table"

C5_Witness ==
    /\ Ran
    /\ Len(log) = 2
    /\ Cardinality(Pipes(lines[1])) = 1
    /\ Cardinality(Pipes(lines[2])) = 2
    /\ log[1].kind = "Prose"
    /\ log[2].kind = "Table"

(***************************************************************************)
(* C6: when no cell was truncated in the first pass, the second pass       *)
(* finds the same number of table regions and gives each the same lines,   *)
(* hence the same column widths, as the first.                              *)
(***************************************************************************)
C6_NonTruncatedIdempotent ==
    (pass = 2 /\ Ran /\ \A k \in RenderedEntries(first.log) : ~Truncates(first.log[k])) =>
        /\ Len(TableEntries(log)) = Len(TableEntries(first.log))
        /\ \A k \in 1..Len(TableEntries(log)) :
               TableEntries(log)[k].out = TableEntries(first.log)[k].out

(***************************************************************************)
(* C7, as specified: an input that is not a string makes the reformatter   *)
(* signal InvalidInputKind.                                                 *)
(***************************************************************************)
C7_SignalsInvalidInputKind ==
    (pc = "returned" /\ input.kind # "string") =>
        completion.type = "throw" /\ completion.error = "InvalidInputKind"

(***************************************************************************)
(* C7, amended: an input that is not a string is returned as it is; no     *)
(* condition is signalled and the value is not coerced.                     *)
(***************************************************************************)
C7_NonStringReturnedUnchanged ==
    (pc = "returned" /\ input.kind # "string") =>
        completion = [type |-> "return", error |-> "", value |-> input]

C7_Witness ==
    /\ pc = "returned"
    /\ input = NumVal(42)
    /\ completion.type = "return"
    /\ completion.value = NumVal(42)

\* a conversion has succeeded
Converted == request # NoRequest /\ result.success

\* the converter's raw output, and what the reformatter makes of it
RawOutput == StrVal(run.content)

Reformatted == cleanMarkerOutput(StrVal(run.content)).value

\* the Markdown of the conversion is m in the result, in the file at
\* output_path when one was given, and in the response when none was
Delivered(m) ==
    /\ result.markdown_content = m
    /\ request.output_path # NoPath =>
           /\ result.output_file = request.output_path
           /\ files[request.output_path] = m
           /\ response.markdown = Undefined
    /\ (request.tool = "convert_pdf" /\ request.output_path = NoPath /\ ~Falsy(m)) =>
           response.markdown = m

\* the auto-clean note is among the warnings of the result and of the response
Noted ==
    /\ \E k \in 1..Len(result.warnings) : result.warnings[k] = AutoCleanNote
    /\ request.tool = "convert_pdf" => response.warnings = result.warnings

NotNoted ==
    /\ \A k \in 1..Len(result.warnings) : result.warnings[k] # AutoCleanNote
    /\ \A k \in 1..Len(response.warnings) : response.warnings[k] # AutoCleanNote

(***************************************************************************)
(* C8, as specified: in every conversion, auto_clean = false delivers the  *)
(* converter's raw output without the auto-clean note, and auto_clean true *)
(* or omitted delivers the reformatter's output with the note.              *)
(***************************************************************************)
C8_FlagDecidesEveryConversion ==
    Converted =>
        IF request.auto_clean = "false"
        THEN Delivered(RawOutput) /\ NotNoted
        ELSE Delivered(Reformatted) /\ Noted

(***************************************************************************)
(* C8, amended: in every conversion that marker produced, auto_clean =     *)
(* false delivers marker's raw output without the auto-clean note, and     *)
(* auto_clean true or omitted delivers the reformatter's output with the   *)
(* note.                                                                    *)
(***************************************************************************)
C8_FlagDecidesMarkerConversion ==
    (Converted /\ used = "marker") =>
        IF request.auto_clean = "false"
        THEN Delivered(RawOutput) /\ NotNoted
        ELSE Delivered(Reformatted) /\ Noted

C8_Witness ==
    /\ Converted
    /\ used = "marker"
    /\ request.auto_clean = "false"
    /\ request.output_path = OutPath
    /\ run.content = RawTable
    /\ files[OutPath] = StrVal(RawTable)
    /\ Reformatted # RawOutput
    /\ result.warnings = <<>>

(***************************************************************************)
(* C9, as specified: whenever auto_clean is true or omitted, the           *)
(* conversion delivers the reformatter's output, whichever engine produced *)
(* it.                                                                      *)
(***************************************************************************)
C9_CleanedWhateverEngine ==
    (Converted /\ request.auto_clean # "false") => Delivered(Reformatted)

(***************************************************************************)
(* C9, amended: with auto_clean true or omitted, the reformatter is        *)
(* applied to what marker produced and never to what pymupdf4llm produced, *)
(* which is delivered raw and without the note, also when convert_pdf fell *)
(* back from marker to pymupdf4llm.                                         *)
(***************************************************************************)
C9_CleanedOnlyForMarker ==
    (Converted /\ request.auto_clean # "false") =>
        /\ used \in {"marker", "pymupdf4llm"}
        /\ used = "marker" => Delivered(Reformatted) /\ Noted
        /\ used = "pymupdf4llm" => Delivered(RawOutput) /\ NotNoted

C9_Witness ==
    /\ Converted
    /\ request.engine = "marker"
    /\ request.auto_clean = "omitted"
    /\ request.output_path = NoPath
    /\ ~env.marker
    /\ used = "pymupdf4llm"
    /\ run.content = RawTable
    /\ response.markdown = StrVal(RawTable)
    /\ Reformatted # RawOutput

\* the engine asked for, marker when none is, and the other one
Requested == IF request.engine = "omitted" THEN "marker" ELSE request.engine

OtherEngine == IF Requested = "marker" THEN "pymupdf4llm" ELSE "marker"

\* the response is the error of the dependency checks
Unavailability ==
    /\ response.isError
    /\ response.text \in {"Neither marker nor pymupdf4llm available",
                          "pymupdf4llm not available"}

(***************************************************************************)
(* C12: when the engine asked for (marker by default) is not installed and *)
(* the other one is, convert_pdf does not answer with the error of engine  *)
(* unavailability, and a conversion that succeeds was made with the other  *)
(* engine and reports it; the error of engine unavailability is returned   *)
(* only when neither engine is installed.                                   *)
(***************************************************************************)
C12_FallsBackBetweenEngines ==
    request.tool = "convert_pdf" =>
        /\ (~env[Requested] /\ env[OtherEngine]) =>
               /\ ~Unavailability
               /\ Converted => used = OtherEngine /\ response.engine = OtherEngine
        /\ Unavailability => ~env.marker /\ ~env.pymupdf4llm

(***************************************************************************)
(* C10: inside a table region a line made up of dashes, pipes and white    *)
(* space only is left out before the rows are parsed: no row comes from    *)
(* it, and the rendered region holds one separator line, the synthesized   *)
(* one, right after the header.                                             *)
(***************************************************************************)
C10_SeparatorLinesExcluded ==
    Ran => \A k \in RenderedEntries(log) :
        /\ Len(log[k].rows)
               <= Cardinality({j \in 1..Len(RawLines(log[k])) :
                                  ~DashesOnly(RawLines(log[k])[j])})
        /\ {j \in 1..Len(log[k].out) : DashesOnly(log[k].out[j])} = {2}

\* the lengths in xs
Values(xs) == {xs[k] : k \in 1..Len(xs)}

Largest(S) == CHOOSE m \in S : \A x \in S : x <= m

\* n times the width that the tiers give to a column of n lengths, their sum
\* being sum and the longest being longest
TierWidthTimes(n, sum, longest) ==
    IF longest <= 25 THEN Max(longest, 8) * n
    ELSE IF longest <= 60
         THEN Max(Min(((8 * longest) \div 10) * n, sum + 10 * n), 15 * n)
         ELSE Min(50 * n, Max(30 * n, sum))

\* the lengths of the cells that the rows have at column c, empty ones too
PresentLengths(rows, c) ==
    LET having == SelectSeq(rows, LAMBDA row : c <= Len(row))
    IN  [k \in 1..Len(having) |-> Len(having[k][c])]

(***************************************************************************)
(* C18: a rendered region has as many planned widths as its longest row    *)
(* has cells; the width of a column is 8 when no cell contributes to it,   *)
(* and otherwise, with max the longest and avg the mean of the contributing *)
(* lengths: max(max, 8) when max <= 25, max(min(floor(0.8 * max), avg +    *)
(* 10), 15) when 25 < max <= 60, min(50, max(30, avg)) when max > 60.      *)
(* Which cells contribute is the matter of C19.                             *)
(***************************************************************************)
C18_WidthFollowsTiers ==
    Ran => \A k \in RenderedEntries(log) :
        /\ Len(log[k].columnWidths)
               = Largest({Len(log[k].rows[r]) : r \in 1..Len(log[k].rows)})
        /\ \A c \in 1..Len(log[k].columnWidths) :
               LET contributing == CellLengths(log[k].rows, c)
                   width        == log[k].columnWidths[c]
               IN  IF Len(contributing) = 0
                   THEN width.num = 8 * width.den
                   ELSE width.num * Len(contributing)
                            = width.den * TierWidthTimes(Len(contributing),
                                                         SumOf(contributing),
                                                         Largest(Values(contributing)))

\* cells of 40 and 1 characters: the medium tier takes avg + 10 = 30.5, and
\* the third column, which only one row has, is planned from that row
C18_Witness ==
    /\ Ran
    /\ Len(log) = 1
    /\ log[1].rendered
    /\ Len(log[1].rows) = 2
    /\ Len(log[1].rows[1]) = 2
    /\ Len(log[1].rows[2]) = 3
    /\ CellLengths(log[1].rows, 2) = <<40, 1>>
    /\ log[1].columnWidths = <<Whole(8), Frac(61, 2), Whole(8)>>

(***************************************************************************)
(* C19: the width of a column is planned from the lengths of all the cells *)
(* that the rows have at that column, the empty ones counting with length  *)
(* 0; only a row that is too short for the column contributes nothing.     *)
(***************************************************************************)
C19_EmptyCellsContribute ==
    Ran => \A k \in RenderedEntries(log) :
        \A c \in 1..Len(log[k].columnWidths) :
            log[k].columnWidths[c] = ColumnWidth(PresentLengths(log[k].rows, c))

(***************************************************************************)
(* C20: every planned width is an integer.                                  *)
(***************************************************************************)
C20_WidthsAreIntegers ==
    Ran => \A k \in RenderedEntries(log) :
        \A c \in 1..Len(log[k].columnWidths) : log[k].columnWidths[c].den = 1

\* the value improvedCleanMarkerOutput returns for the input when no other call runs
InIsolation(doc) == improvedCleanMarkerOutput(doc)

\* C11: a call of the reformatter returns what the same call returns in
\* isolation, whatever calls on other documents ran before it or took steps
\* between its own
C11_CallsAreIndependent ==
    \A p \in Callers :
        inv[p].pc = "returned" => inv[p].output = InIsolation(inv[p].input)

\* a call on a table has returned after another call, still under way on another
\* document, took steps during it
C11_Witness ==
    \E p, q \in Callers :
        /\ inv[p].pc = "returned"
        /\ inv[p].met
        /\ inv[p].input = RawTable
        /\ InFlight(q)
        /\ inv[q].met
        /\ inv[q].input # inv[p].input

\* a Markdown file of the PDF is on the disk
HasCompanion(d, pdfPath) ==
    \E path \in DOMAIN d.files \cup d.dirs :
        \E k \in 1..Len(possibleMdPaths(pdfPath)) : path = possibleMdPaths(pdfPath)[k]

\* the PDFs that the call before the last one converted with success
ConvertedBefore ==
    {previous.results[i].pdf_path :
        i \in {j \in 1..Len(previous.results) : previous.results[j].success}}

\* C13: convert_missing attempts the conversion of exactly the PDFs that have no
\* Markdown file when they are examined, and reports those attempts; a PDF that
\* a call converted with success is passed over by the next call of
\* convert_missing and shown as converted by the next call of check_conversions
C13_ConvertsExactlyTheMissing ==
    /\ report.tool = "convert_missing" =>
           /\ \A i \in 1..Len(report.examined) :
                  report.examined[i].attempted
                      <=> ~HasCompanion(report.examined[i].before,
                                        report.examined[i].pdf_path)
           /\ [i \in 1..Len(report.results) |-> report.results[i].pdf_path]
                  = SelectSeq([i \in 1..Len(report.examined) |->
                                  IF report.examined[i].attempted
                                  THEN report.examined[i].pdf_path ELSE <<>>],
                              LAMBDA x : x # <<>>)
           /\ report.conversions_attempted = Len(report.results)
    /\ (previous.tool = "convert_missing" /\ report.tool = "convert_missing") =>
           \A i \in 1..Len(report.examined) :
               report.examined[i].pdf_path \in ConvertedBefore
                   => ~report.examined[i].attempted
    /\ (previous.tool = "convert_missing" /\ report.tool = "check_conversions") =>
           \A i \in 1..Len(report.conversion_status) :
               report.conversion_status[i].pdf_path \in ConvertedBefore
                   => /\ report.conversion_status[i].has_markdown
                      /\ ~report.conversion_status[i].needs_conversion

\* a call converted the PDF with the space in its name, and the next call
\* examines it and passes it over while it converts another
C13_Witness ==
    /\ previous.tool = "convert_missing"
    /\ PdfSpace \in ConvertedBefore
    /\ report.tool = "convert_missing"
    /\ \E i \in 1..Len(report.examined) :
           report.examined[i].pdf_path = PdfSpace /\ ~report.examined[i].attempted
    /\ \E i \in 1..Len(report.examined) : report.examined[i].attempted

\* the names of the steps that full_workflow reports, in their order
StepNames == [i \in 1..Len(report.steps) |-> report.steps[i].step]

\* C14: a response of full_workflow with workflow_completed = true comes after
\* the steps discover, check, convert and, if asked for, analyze, in this order,
\* and after the folder of every category of the final categorization was created
C14_WorkflowRunsEveryStep ==
    (report.tool = "full_workflow" /\ report.workflow_completed) =>
        /\ StepNames = <<"discover", "check_conversions", "convert_missing">>
                           \o IF report.analyze_content THEN <<"analyze_content">> ELSE <<>>
        /\ \A k \in 1..Len(report.final_categorization) :
               PathJoin(DocsDir, report.final_categorization[k].category) \in disk.dirs

\* a file with the name of the listed one lies in the folder of the category
\* or below it
LocatedUnder(categoryPath, file) ==
    \E path \in DOMAIN disk.files :
        Under(categoryPath, path) /\ Basename(path) = Basename(file)

\* C15: after organize_structure every category has its folder, with the
\* subfolders PDFs and MDs if they are asked for, and every file listed for a
\* category lies under the folder of the category
C15_ListedFilesAreMoved ==
    report.tool = "organize_structure" =>
        \A k \in 1..Len(report.categories) :
            /\ PathJoin(DocsDir, report.categories[k].name) \in disk.dirs
            /\ report.create_pdf_md_subfolders =>
                   /\ PathJoin(PathJoin(DocsDir, report.categories[k].name),
                               <<"P", "D", "F", "s">>) \in disk.dirs
                   /\ PathJoin(PathJoin(DocsDir, report.categories[k].name),
                               <<"M", "D", "s">>) \in disk.dirs
            /\ \A f \in 1..Len(report.categories[k].files) :
                   LocatedUnder(PathJoin(DocsDir, report.categories[k].name),
                                report.categories[k].files[f])

\* the text holds a status header that says ACTIVE
HasActiveHeader(text) == \E p \in 1..Len(text) : MatchStatus(text, p) > 0

\* the number of places of the text where the literal stands
Occurrences(text, lit) == Cardinality({p \in 1..Len(text) : At(text, p, lit)})

\* the archive of the plan that the last call reports: a file with the name of
\* the plan in docs/plans/archived or docs/plans/superseded of the project, in
\* which no status header says ACTIVE, as many headers say the new status as
\* said ACTIVE before, and which ends with the Archival Information
ArchiveOfPlan(path) ==
    /\ Dirname(path) = Project \o <<NameDocs, NamePlans, ToLowerCase(report.status)>>
    /\ Basename(path) = Basename(report.original_path)
    /\ ~HasActiveHeader(disk.files[path].chars)
    /\ Occurrences(disk.files[path].chars, LitStatus \o <<" ">> \o report.status)
           >= Cardinality({p \in 1..Len(report.content) : MatchStatus(report.content, p) > 0})
    /\ EndsWith(disk.files[path].chars, ArchivalInformation(report.reason, Today))

\* C16: after archive_plan reports success, the plan is a file in
\* docs/plans/archived or docs/plans/superseded of the project, with its ACTIVE
\* headers replaced by the new status and the Archival Information appended,
\* wherever the plan was before
C16_ArchivedPlanExists ==
    (report.tool = "archive_plan" /\ report.plan_archived) =>
        \E path \in DOMAIN disk.files : ArchiveOfPlan(path)

\* the plan documents of the project that carry the status ACTIVE: the root
\* ACTIVE_PLAN.md and the Markdown files below docs
ActivePlanDocuments ==
    {path \in DOMAIN disk.files :
        /\ path = RootPlan
           \/ (Under(PathJoin(Project, NameDocs), path)
               /\ ToLowerCase(Extname(Basename(path))) = ExtMd)
        /\ Includes(disk.files[path].chars, StatusActive)}

\* C17: validate_doc_structure reports the issue of multiple ACTIVE plans, and
\* compliant = false, whenever more than one plan document of the project
\* carries the status ACTIVE
C17_DetectsMultipleActivePlans ==
    (report.tool = "validate_doc_structure" /\ Cardinality(ActivePlanDocuments) > 1) =>
        /\ \E k \in 1..Len(report.issues) :
               report.issues[k].issue = "Multiple ACTIVE plans found"
        /\ ~report.compliant

\* a run of exactly n hyphens
HyphenRun(cell, n) == Len(cell) = n /\ \A k \in 1..Len(cell) : cell[k] = "-"

\* the line has the structure of a row of the entry e whose cell of column c
\* is a run of columnWidths[c] hyphens
SeparatorOf(e, line) ==
    /\ Len(OutCells(line)) = Len(e.columnWidths)
    /\ line = RowLine(OutCells(line))
    /\ \A c \in 1..Len(e.columnWidths) :
           /\ IsInteger(e.columnWidths[c])
           /\ HyphenRun(OutCells(line)[c], e.columnWidths[c].num)

(***************************************************************************)
(* C21: in every rendered table region the synthesized separator is        *)
(* emitted exactly once, directly after the first parsed row and before    *)
(* every other row; it has the structure of a data row, the cell of column *)
(* c being a run of exactly ColumnPlan[c] hyphens; the rows follow in      *)
(* their original order.                                                    *)
(***************************************************************************)
C21_SeparatorOnceAfterHeader ==
    Ran => \A k \in RenderedEntries(log) :
        /\ Len(log[k].out) = Len(log[k].rows) + 1
        /\ {j \in 1..Len(log[k].out) : SeparatorOf(log[k], log[k].out[j])} = {2}
        /\ \A r \in 1..Len(log[k].rows) :
               RowOut(log[k], r) = FormatRow(log[k].rows[r], log[k].columnWidths)

\* the table entries of the log that hold fewer than two lines
ShortTables(l) == {k \in 1..Len(l) : l[k].kind = "Table" /\ l[k].end - l[k].start < 2}

(***************************************************************************)
(* C22: a table region of fewer than two lines is not rendered: its one    *)
(* output line is the input line after the conservative cleaning of table  *)
(* lines, without padding to a column plan and without a separator.        *)
(***************************************************************************)
C22_ShortRegionOnlyCleaned ==
    Ran => \A k \in ShortTables(log) :
        /\ ~log[k].rendered
        /\ log[k].out = <<cleanTableLine(RawLines(log[k])[1])>>

\* a one-line region whose line the cleaning rewrites
C22_Witness ==
    /\ Ran
    /\ \E k \in ShortTables(log) : log[k].out # RawLines(log[k])

\* C22 as stated: the output line is character for character the raw line
C22_ShortRegionUnmodified ==
    Ran => \A k \in ShortTables(log) : log[k].out = RawLines(log[k])

(***************************************************************************)
(* Documents with markup for the cleaners: line-break markers inside a URL *)
(* and at the edge of a row, inline tags, a location split by a marker.    *)
(***************************************************************************)
MaxMarkupLines == 2

\* "http://a<br>b": a URL split by a line-break marker
UrlSplit == <<"h", "t", "t", "p", ":", "/", "/", "a", "<", "b", "r", ">", "b">>

\* "http://ab": its two halves concatenated
UrlJoined == <<"h", "t", "t", "p", ":", "/", "/", "a", "b">>

\* "|http://a<br>b|c|": the split URL in a cell
LineUrlRow == <<"|">> \o UrlSplit \o <<"|", "c", "|">>

\* "|<em>a</em>|<u>b</u>|": inline tags in the cells
LineTagRow ==
    <<"|", "<", "e", "m", ">", "a", "<", "/", "e", "m", ">", "|",
      "<", "u", ">", "b", "<", "/", "u", ">", "|">>

\* "<br>|a|b": a row without outer pipes whose first cell is a marker
LineBrRow == <<"<", "b", "r", ">", "|", "a", "|", "b">>

\* "a,<br>b |c|": a location split by a marker, white space before a pipe
LineLocationRow == <<"a", ",", "<", "b", "r", ">", "b", " ", "|", "c", "|">>

MarkupPool == {LineProse, UrlSplit, LineUrlRow, LineTagRow, LineBrRow, LineLocationRow}

\* the documents of exactly n lines
RECURSIVE MarkupDocsOf(_)
MarkupDocsOf(n) ==
    IF n = 1 THEN MarkupPool
    ELSE {d \o <<NL>> \o l : d \in MarkupDocsOf(n - 1), l \in MarkupPool}

MarkupInputs ==
    {StrVal(d) : d \in UNION {MarkupDocsOf(n) : n \in 1..MaxMarkupLines}} \cup NonStrings

\* the reformatter called on the documents with markup
InitMarkup ==
    /\ pc = "called"
    /\ pass = 1
    /\ input \in MarkupInputs
    /\ lines = <<>>
    /\ tableRegions = <<>>
    /\ log = <<>>
    /\ cleanedLines = <<>>
    /\ completion = NoCompletion
    /\ first = NoFirst
    /\ env = [marker |-> TRUE, pymupdf4llm |-> TRUE, pdfExists |-> TRUE]
    /\ ConvertIdle
    /\ OthersIdle

SpecMarkup == InitMarkup /\ [][Next]_vars

\* some line of the document holds a URL split by a line-break marker
HasSplitUrl == \E i \in 1..Len(lines) : Includes(lines[i], UrlSplit)

(***************************************************************************)
(* C23: when a line-break marker splits a URL, the text returned by the    *)
(* pipeline holds the two halves of the URL concatenated directly, with    *)
(* neither the marker nor a space between them.                             *)
(***************************************************************************)
C23_SplitUrlIsJoined ==
    (Ran /\ pass = 1 /\ HasSplitUrl) => Includes(completion.value.chars, UrlJoined)

(***************************************************************************)
(* C25: the conservative cleaning of a table line keeps the cell           *)
(* boundaries: the cleaned line has as many '|' as the raw line, it yields *)
(* as many cells as the raw line, and it is still a table line.            *)
(***************************************************************************)
C25_CleaningKeepsCells ==
    Ran => \A k \in 1..Len(log) :
        log[k].kind = "Table" =>
            \A j \in 1..Len(log[k].tableLines) :
                /\ Cardinality(Pipes(log[k].tableLines[j]))
                       = Cardinality(Pipes(RawLines(log[k])[j]))
                /\ Len(ParseCells(log[k].tableLines[j]))
                       = Len(ParseCells(RawLines(log[k])[j]))
                /\ IsTableLine(log[k].tableLines[j])

\* the number of output lines of the entries of the log before entry k
RECURSIVE OutBefore(_, _)
OutBefore(l, k) == IF k <= 1 THEN 0 ELSE OutBefore(l, k - 1) + Len(l[k - 1].out)

(***************************************************************************)
(* C24: the assembler emits the outputs of the regions in the order of the *)
(* document: the lines handed to the whole-document normalization are the  *)
(* output lines of the first region, then those of the second, and so on,  *)
(* so that every output line of an earlier region comes before every       *)
(* output line of a later one; a prose region contributes one cleaned line *)
(* for each of its lines, at the place of that line within the region.     *)
(***************************************************************************)
C24_RegionsEmittedInOrder ==
    Ran =>
        /\ \A k \in 1..(Len(log) - 1) : log[k].start < log[k + 1].start
        /\ Len(cleanedLines) = OutBefore(log, Len(log) + 1)
        /\ \A k \in 1..Len(log) : \A j \in 1..Len(log[k].out) :
               cleanedLines[OutBefore(log, k) + j] = log[k].out[j]
        /\ \A k \in 1..Len(log) :
               log[k].kind = "Prose" =>
                   /\ Len(log[k].out) = log[k].end - log[k].start
                   /\ \A j \in 1..Len(log[k].out) :
                          log[k].out[j] = cleanRegularLine(RawLines(log[k])[j])

\* a prose line after a rendered table of two rows
C24_Witness ==
    /\ Ran
    /\ Len(log) = 2
    /\ log[1].rendered
    /\ Len(log[1].out) = 3
    /\ log[2].kind = "Prose"
    /\ Len(cleanedLines) = 4

\* the length of the longest cell that the rows of entry e have at column c
LongestCell(e, c) == Largest({Len(CellOf(e.rows[r], c)) : r \in 1..Len(e.rows)})

\* the rendering of the cell of row r at column c of entry e
Shown(e, r, c) == OutCells(RowOut(e, r))[c]

(***************************************************************************)
(* C26: in a column whose longest cell has at most 25 characters no cell   *)
(* is truncated: every rendered cell is the cell's content padded with     *)
(* spaces on the right, without an added ellipsis; a cell is truncated     *)
(* only in a column whose longest cell has more than 25 characters.        *)
(***************************************************************************)
C26_ShortColumnsShownInFull ==
    Ran => \A k \in RenderedEntries(log) :
        \A c \in 1..Len(log[k].columnWidths) : \A r \in 1..Len(log[k].rows) :
            LET cell == CellOf(log[k].rows[r], c)
            IN  /\ LongestCell(log[k], c) <= 25 =>
                       /\ Len(Shown(log[k], r, c)) >= Len(cell)
                       /\ Shown(log[k], r, c) = PadEnd(cell, Len(Shown(log[k], r, c)))
                       /\ Trim(Shown(log[k], r, c)) = cell
                /\ Shown(log[k], r, c) # PadEnd(cell, Len(Shown(log[k], r, c))) =>
                       LongestCell(log[k], c) > 25

\* a column whose longest cell has exactly 25 characters, rendered in 25
\* characters, and a row that has no cell at that column
C26_Witness ==
    /\ Ran
    /\ \E k \in RenderedEntries(log) :
           /\ Len(log[k].rows) = 2
           /\ Len(log[k].columnWidths) = 2
           /\ Len(log[k].rows[1]) = 2
           /\ LongestCell(log[k], 2) = 25
           /\ Shown(log[k], 1, 2) = log[k].rows[1][2]
           /\ Len(log[k].rows[2]) = 1

\* the longest of the lengths collected for column c, the planner's maxLength
MaxLength(e, c) == Largest(Values(CellLengths(e.rows, c)))

\* lo <= width <= hi
Within(width, lo, hi) == FLe(Whole(lo), width) /\ FLe(width, Whole(hi))

(***************************************************************************)
(* C27: every planned width w satisfies 8 <= w <= 50: 8..25 in the short   *)
(* tier, 15..48 in the medium tier, 30..50 in the long tier.  So w - 3 is  *)
(* at least 5, and the prefix that the hard truncation takes of a cell has *)
(* at least 5 characters.                                                   *)
(***************************************************************************)
C27_WidthsWithinBounds ==
    Ran => \A k \in RenderedEntries(log) :
        \A c \in 1..Len(log[k].columnWidths) :
            LET width == log[k].columnWidths[c]
            IN  /\ Within(width, 8, 50)
                /\ FLe(Whole(5), FPlus(width, -3))
                /\ CellLengths(log[k].rows, c) # <<>> =>
                       /\ MaxLength(log[k], c) <= 25 => Within(width, 8, 25)
                       /\ (25 < MaxLength(log[k], c) /\ MaxLength(log[k], c) <= 60) =>
                              Within(width, 15, 48)
                       /\ 60 < MaxLength(log[k], c) => Within(width, 30, 50)
                /\ \A r \in 1..Len(log[k].rows) :
                       (/\ Len(CellOf(log[k].rows[r], c)) * width.den > width.num
                        /\ ~Includes(CellOf(log[k].rows[r], c), <<" ">>)) =>
                           /\ Len(Trim(Shown(log[k], r, c))) - 3 >= 5
                           /\ Trim(Shown(log[k], r, c))
                                  = Sub(CellOf(log[k].rows[r], c), 1,
                                        Len(Trim(Shown(log[k], r, c))) - 2) \o Ellipsis

\* a column of the long tier at the upper bound, width 50, in which a cell
\* of 70 characters is cut to its first 47 characters by the hard truncation
C27_Witness ==
    /\ Ran
    /\ \E k \in RenderedEntries(log) : \E c \in 1..Len(log[k].columnWidths) :
           /\ log[k].columnWidths[c] = Whole(50)
           /\ Len(CellOf(log[k].rows[1], c)) = 70
           /\ Len(Trim(Shown(log[k], 1, c))) = 50

(***************************************************************************)
(* init_project_docs.  A template is modelled by its title line, for       *)
(* ACTIVE_PLAN.md followed by the status header, for the two others by the *)
(* project type; the lines that follow do not depend on the arguments.     *)
(***************************************************************************)
TitleCurrentStatus == <<" ", "-", " ", "S", "t", "a", "t", "u", "s">>

TitleActivePlan == <<" ", "P", "l", "a", "n">>

TitleInstructions == <<" ", "I", "n", "s", "t", "r", "u", "c", "t", "i", "o", "n", "s">>

DevelopmentProject == <<"D", "e", "v">>

\* projectType || 'Development project'
TypeOrDefault(projectType) == IF projectType = <<>> THEN DevelopmentProject ELSE projectType

generateCurrentStatusTemplate(projectName, projectType) ==
    <<"#", " ">> \o projectName \o TitleCurrentStatus \o <<NL>> \o TypeOrDefault(projectType)

generateActivePlanTemplate(projectName) ==
    <<"#", " ">> \o projectName \o TitleActivePlan \o <<NL>> \o StatusActive \o <<" ", " ", NL>>

generateClaudeInstructionsTemplate(projectName, projectType) ==
    <<"#", " ">> \o projectName \o TitleInstructions \o <<NL>> \o TypeOrDefault(projectType)

filesToCreate(project_name, project_type) ==
    << [path |-> NameCurrentStatus,
        content |-> generateCurrentStatusTemplate(project_name, project_type)],
       [path |-> NameActivePlan,
        content |-> generateActivePlanTemplate(project_name)],
       [path |-> NameClaudeInstructions,
        content |-> generateClaudeInstructionsTemplate(project_name, project_type)] >>

RECURSIVE MkdirEach(_, _, _, _)
\* the loop over requiredDirs
MkdirEach(d, validatedPath, dirs, k) ==
    IF k > Len(dirs) THEN d
    ELSE MkdirEach(Mkdir(d, validatedPath \o dirs[k]), validatedPath, dirs, k + 1)

\* every file is written, the existing ones too
CreateStep_overwrite(acc, fullPath, file) ==
    [acc EXCEPT !.disk = WriteFile(@, fullPath, StrVal(file.content)),
                !.createdFiles = Append(@, file.path)]

\* the body of the loop over filesToCreate: fs.access, or writeFile in the catch
CreateStep(acc, fullPath, file) ==
    IF Exists(acc.disk, fullPath)
    THEN [acc EXCEPT !.skippedFiles = Append(@, file.path)]
    ELSE [acc EXCEPT !.disk = WriteFile(@, fullPath, StrVal(file.content)),
                     !.createdFiles = Append(@, file.path)]

RECURSIVE CreateLoop(_, _, _, _)
CreateLoop(acc, validatedPath, toCreate, k) ==
    IF k > Len(toCreate) THEN acc
    ELSE CreateLoop(CreateStep(acc, PathJoin(validatedPath, toCreate[k].path), toCreate[k]),
                    validatedPath, toCreate, k + 1)

\* the response; message holds the project name that the message ends with
InitProjectDocsDone(validatedPath, project_name, acc) ==
    Answers(acc.disk,
            [tool |-> "init_project_docs", isError |-> FALSE, project_initialized |-> TRUE,
             project_path |-> validatedPath, directories_created |-> requiredDirs,
             files_created |-> acc.createdFiles, files_skipped |-> acc.skippedFiles,
             message |-> project_name])

InitProjectDocsParsed(parsed) ==
    InitProjectDocsDone(
        parsed.directory_path, parsed.project_name,
        CreateLoop([disk |-> MkdirEach(disk, parsed.directory_path, requiredDirs, 1),
                    createdFiles |-> <<>>, skippedFiles |-> <<>>],
                   parsed.directory_path,
                   filesToCreate(parsed.project_name, parsed.project_type), 1))

InitProjectDocsArgs ==
    [directory_path : {Project}, project_name : {<<"x">>, <<"y">>},
     project_type : {<<>>, <<"a", "p", "i">>}]

\* the handler of document_organizer__init_project_docs
InitProjectDocs ==
    /\ turns < MaxTurns
    /\ turns' = turns + 1
    /\ UNCHANGED <<reformatVars, convertVars, callVars>>
    /\ \E args \in InitProjectDocsArgs : InitProjectDocsParsed(args)

\* the project directory before the first call: each of the three files is
\* there or not, and the directories under docs are there or not
StartFiles(status, plan, instructions) ==
    LET paths == (IF status THEN {PathJoin(Project, NameCurrentStatus)} ELSE {})
                     \cup (IF plan # <<>> THEN {RootPlan} ELSE {})
                     \cup (IF instructions THEN {PathJoin(Project, NameClaudeInstructions)}
                           ELSE {})
    IN  [path \in paths |-> StrVal(IF path = RootPlan THEN plan ELSE TextPlain)]

StartDisks ==
    {[files |-> StartFiles(status, plan, instructions),
      dirs |-> IF docs THEN ProjectDirs(TRUE) ELSE {Project}] :
        status \in BOOLEAN, plan \in {<<>>, TextArchived, TextPlain},
        instructions \in BOOLEAN, docs \in BOOLEAN}

InitProject ==
    /\ ReformatIdle
    /\ env = [marker |-> TRUE, pymupdf4llm |-> TRUE, pdfExists |-> TRUE]
    /\ ConvertIdle
    /\ CallsIdle
    /\ disk \in StartDisks
    /\ report = NoReport
    /\ previous = NoReport
    /\ turns = 0

NextProject == InitProjectDocs \/ ValidateDocStructure

SpecProject == InitProject /\ [][NextProject]_vars

\* this step is a call of init_project_docs
InitProjectDocsStep == turns' = turns + 1 /\ report'.tool = "init_project_docs"

Listed_in(names, name) == \E k \in 1..Len(names) : names[k] = name

(***************************************************************************)
(* C28: init_project_docs never overwrites CURRENT_STATUS.md,              *)
(* ACTIVE_PLAN.md or .claude-instructions.md: a file that exists keeps its *)
(* content and is listed in files_skipped, a missing one is created and    *)
(* listed in files_created; no other file changes; a call that follows     *)
(* another call creates no file and changes none.                          *)
(***************************************************************************)
C28_InitNeverOverwrites ==
    [][InitProjectDocsStep =>
          /\ \A k \in 1..Len(requiredFiles) :
                 LET name == requiredFiles[k]
                     path == PathJoin(Project, name)
                 IN  /\ IsFile(disk', path)
                     /\ IF IsFile(disk, path)
                        THEN /\ disk'.files[path] = disk.files[path]
                             /\ Listed_in(report'.files_skipped, name)
                             /\ ~Listed_in(report'.files_created, name)
                        ELSE /\ Listed_in(report'.files_created, name)
                             /\ ~Listed_in(report'.files_skipped, name)
          /\ \A path \in DOMAIN disk.files :
                 IsFile(disk', path) /\ disk'.files[path] = disk.files[path]
          /\ report.tool = "init_project_docs" =>
                 /\ report'.files_created = <<>>
                 /\ disk'.files = disk.files]_vars

\* a second call, with another project name, after a call that created one
\* file at least and skipped one at least
C28_Witness ==
    /\ report.tool = "init_project_docs"
    /\ previous.tool = "init_project_docs"
    /\ previous.files_created # <<>>
    /\ previous.files_skipped # <<>>
    /\ previous.project_path = report.project_path
    /\ report.files_skipped = requiredFiles
    /\ previous.message = <<"x">>
    /\ report.message = <<"y">>
    /\ \E path \in DOMAIN disk.files : Includes(disk.files[path].chars, <<"#", " ", "x">>)

(***************************************************************************)
(* The batch tools on a machine with marker or without it.                 *)
(***************************************************************************)
InitBatch ==
    /\ ReformatIdle
    /\ env \in [marker : BOOLEAN, pymupdf4llm : {TRUE}, pdfExists : {TRUE}]
    /\ ConvertIdle
    /\ CallsIdle
    /\ disk \in Disks
    /\ report = NoReport
    /\ previous = NoReport
    /\ turns = 0

SpecBatch == InitBatch /\ [][NextOrganize]_vars

\* the attempts of the call before the last one that failed
FailedBefore ==
    {i \in 1..Len(previous.examined) :
        previous.examined[i].attempted /\ ~previous.examined[i].result.success}

(***************************************************************************)
(* C30: a marker conversion that fails (marker unavailable, the subprocess *)
(* failing, empty content) writes nothing, and its result has success =    *)
(* false, an error text, and page_count, char_count and images_extracted   *)
(* equal to 0; hence a PDF that convert_missing tried to convert without   *)
(* success is reported as needing conversion by the check_conversions that *)
(* follows the call.                                                        *)
(***************************************************************************)
C30_FailedConversionLeavesNoFile ==
    /\ report.tool = "convert_missing" =>
           \A i \in 1..Len(report.examined) :
               (report.examined[i].attempted /\ ~report.examined[i].result.success) =>
                   /\ report.examined[i].after = report.examined[i].before
                   /\ report.examined[i].result.write = Undefined
                   /\ report.examined[i].result.error # ""
                   /\ report.examined[i].result.page_count = 0
                   /\ report.examined[i].result.char_count = 0
                   /\ report.examined[i].result.images_extracted = 0
    /\ (previous.tool = "convert_missing" /\ report.tool = "check_conversions") =>
           \A i \in FailedBefore : \A j \in 1..Len(report.conversion_status) :
               report.conversion_status[j].pdf_path = previous.examined[i].pdf_path =>
                   /\ report.conversion_status[j].needs_conversion
                   /\ ~report.conversion_status[j].has_markdown

(***************************************************************************)
(* The handler of CallToolRequestSchema as the protocol layer sees it: the *)
(* switch over the tool name inside try, and the catch that turns whatever *)
(* is thrown into a response.  The text of a response is the sequence of   *)
(* the parts that its template is made of.                                 *)
(***************************************************************************)
ToolNames ==
    {"convert_pdf", "check_dependency", "document_organizer__discover_pdfs",
     "document_organizer__check_conversions", "document_organizer__convert_missing",
     "document_organizer__analyze_content", "document_organizer__organize_structure",
     "document_organizer__full_workflow", "document_organizer__init_project_docs",
     "document_organizer__archive_plan", "document_organizer__validate_doc_structure",
     "document_organizer__create_weekly_handoff"}

\* names that no case of the switch has
OtherNames == {"convert", "document_organizer__convert"}

\* the message is returned as it is, without "Error: " before it
HandlerCatch_bare(name, cause, message) ==
    [tool |-> name, isError |-> TRUE, text |-> message, cause |-> cause]

\* the catch of the handler: `Error: ${message}` and isError
HandlerCatch(name, cause, message) ==
    [tool |-> name, isError |-> TRUE, text |-> <<"Error: ">> \o message, cause |-> cause]

\* default: throw new Error(`Unknown tool: ${name}`)
UnknownTool ==
    /\ turns < MaxTurns
    /\ turns' = turns + 1
    /\ UNCHANGED <<reformatVars, convertVars, callVars>>
    /\ \E name \in OtherNames :
           Answers(disk, HandlerCatch(name, "unknown tool", <<"Unknown tool: ", name>>))

\* arguments that the schema of the tool rejects: safeParse and the Error of
\* convert_pdf, the ZodError that parse throws in the document_organizer cases
InvalidArguments ==
    /\ turns < MaxTurns
    /\ turns' = turns + 1
    /\ UNCHANGED <<reformatVars, convertVars, callVars>>
    /\ \E name \in {"convert_pdf", "document_organizer__convert_missing"} :
           Answers(disk,
                   HandlerCatch(name, "invalid arguments",
                                IF name = "convert_pdf"
                                THEN <<"Invalid arguments for convert_pdf: ", "ZodError">>
                                ELSE <<"ZodError">>))

\* convert_pdf: what the case returns, or the error it throws
ConvertPdfOutcome(e, r, parsed, engine) ==
    IF engine = "none"
    THEN [cause |-> "engine not available",
          response |-> ErrorResponse(UnavailableMessage(parsed.options.engine))]
    ELSE LET res == convertPdfToMarkdown(e, r, parsed.output_path,
                                         [parsed.options EXCEPT !.engine = engine])
         IN  [cause |-> IF res.success THEN "none" ELSE "conversion failed",
              response |-> ConvertPdfResponse(res, engine)]

CallConvertPdfDone(outcome) ==
    Answers(disk,
            IF outcome.cause # "none"
            THEN HandlerCatch("convert_pdf", outcome.cause, <<outcome.response.text>>)
            ELSE [tool |-> "convert_pdf", text |-> <<outcome.response.text>>,
                  cause |-> "none", engine |-> outcome.response.engine,
                  output_file |-> outcome.response.output_file])

\* the handler called for convert_pdf
CallConvertPdf ==
    /\ turns < MaxTurns
    /\ turns' = turns + 1
    /\ UNCHANGED <<reformatVars, convertVars, callVars>>
    /\ \E args \in ConvertPdfArgs, r \in EngineRuns :
           CallConvertPdfDone(
               ConvertPdfOutcome(env, r, ConvertPdfArgsSchema(args),
                                 SelectEngine(env, ConvertPdfArgsSchema(args).options.engine)))

\* a directory that does not exist
NoSuchDir == << <<"n">> >>

\* the handler of document_organizer__discover_pdfs
DiscoverPdfs ==
    /\ turns < MaxTurns
    /\ turns' = turns + 1
    /\ UNCHANGED <<reformatVars, convertVars, callVars>>
    /\ \E directory_path \in {DocsDir, NoSuchDir}, recursive \in BOOLEAN :
           Answers(disk,
                   [tool |-> "discover_pdfs",
                    found_pdfs |-> Cardinality(findPdfFiles(disk, directory_path, recursive)),
                    pdf_files |-> findPdfFiles(disk, directory_path, recursive),
                    scanned_directory |-> directory_path,
                    recursive_scan |-> recursive])

HandlerDisks == {DiskOf({PdfSpace, PdfHyphen}, {}), DiskOf({PdfHyphen, PdfUpper}, {MdHyphen})}

InitHandler ==
    /\ ReformatIdle
    /\ env \in Environments
    /\ ConvertIdle
    /\ CallsIdle
    /\ disk \in HandlerDisks
    /\ report = NoReport
    /\ previous = NoReport
    /\ turns = 0

NextHandler ==
    UnknownTool \/ InvalidArguments \/ CallConvertPdf \/ DiscoverPdfs \/ ConvertMissing

SpecHandler == InitHandler /\ [][NextHandler]_vars

\* the response has isError = true
IsError(r) == "isError" \in DOMAIN r /\ r.isError

\* an error was thrown in the case of the tool, or by the default case
Thrown(r) == "cause" \in DOMAIN r /\ r.cause # "none"

\* an error was raised and caught below the handler: a conversion of
\* convert_missing failed, or the directory of discover_pdfs cannot be read
CaughtBelow(r) ==
    \/ r.tool = "convert_missing" /\ r.failed_conversions > 0
    \/ r.tool = "discover_pdfs" /\ ~Exists(disk, r.scanned_directory)

StartsWithError(r) == Len(r.text) >= 2 /\ r.text[1] = "Error: "

(***************************************************************************)
(* C29: the handler answers every call with a response.  An error that is  *)
(* thrown up to the handler (unknown tool, arguments that the schema       *)
(* rejects, convert_pdf without an engine or with a failed conversion) is  *)
(* returned with isError = true and a text that starts with "Error: ", and *)
(* isError is set in no other case.  An error that is caught below the     *)
(* handler is reported in a response without isError.                      *)
(***************************************************************************)
C29_ThrownErrorsAreReturned ==
    report # NoReport =>
        /\ IsError(report) <=> Thrown(report)
        /\ IsError(report) => StartsWithError(report)
        /\ report.tool \in OtherNames \ ToolNames
               => /\ IsError(report)
                  /\ report.text = <<"Error: ", "Unknown tool: ", report.tool>>
        /\ CaughtBelow(report) => ~IsError(report)

\* an error response for a failed conversion of convert_pdf, then a
\* convert_missing that reports a failed conversion without isError
C29_Witness ==
    /\ IsError(previous)
    /\ previous.cause = "conversion failed"
    /\ previous.text = <<"Error: ", "Marker conversion failed">>
    /\ report.tool = "convert_missing"
    /\ CaughtBelow(report)

\* C29 as stated: isError is set exactly when an error was raised while the
\* call was handled
C29_EveryErrorIsReturned ==
    report # NoReport =>
        /\ IsError(report) <=> (Thrown(report) \/ CaughtBelow(report))
        /\ IsError(report) => StartsWithError(report)

=============================================================================
